---- MODULE Spec2Model ----
(***************************************************************************)
(* Model of the DevSecOps dashboard back end (src/app.py): the four report *)
(* parsers, the status classifier and the GitHub Actions status fetcher.   *)
(*                                                                         *)
(* Conventions.  A Python str whose characters the code inspects is a      *)
(* sequence of one-character strings.  A decoded JSON value is a record    *)
(* [t, n, s, l, o] carrying its type tag t and, by type, its number n, its *)
(* characters s, its items l or its members o.  A Python dict is the       *)
(* sequence of its [k, v] members in insertion order.  Exception texts and *)
(* dict keys, which the code never inspects, are plain strings.            *)
(***************************************************************************)
EXTENDS Integers, Sequences, FiniteSets, TLC

VARIABLES
    files,          \* path -> content of the report file on disk
    bandit,         \* result of load_bandit_results(), NotRun before the call
    safety,         \* result of load_safety_results()
    coverage,       \* result of load_coverage()
    trivy,          \* result of load_trivy_results()
    clsInput,       \* the status string given to status_class
    clsTrail,       \* the classes returned so far: of clsInput, then of that class
    env,            \* os.environ: GITHUB_TOKEN and GITHUB_REPOSITORY
    latest,         \* id of the CI provider's newest workflow run, 0 when it has none
    gh,             \* position and locals of get_github_actions_status
    calls,          \* number of requests sent so far, by CI provider endpoint
    runsResp,       \* response to the fetcher's run-list request
    jobsResp,       \* response to the fetcher's job-list request
    jobsRun,        \* run ids the job list was requested for
    dlFrom,         \* run ids whose artifacts were extracted to disk
    github_actions, \* result of get_github_actions_status(), NotRun before it returns
    job_name,       \* the pipeline stage the dashboard resolves against the jobs
    job_status,     \* result of get_job_status(job_name), <<>> before it returns
    job_conclusion, \* result of get_job_conclusion(job_name), <<>> before it returns
    response,       \* the HTTP response to the status request, NoReply before it
    API_TOKEN,      \* os.environ: the shared secret of the write-back endpoint
    slot,           \* content of reports/latest_status.json, NoSlot when absent
    updates         \* the update requests handled so far, each with its response

parseVars == <<files, bandit, safety, coverage, trivy>>
clsVars   == <<clsInput, clsTrail>>
ghVars    == <<env, latest, gh, calls, runsResp, jobsResp, jobsRun, dlFrom, github_actions>>
dashVars  == <<job_name, job_status, job_conclusion>>
webVars   == <<response, API_TOKEN, slot, updates>>
vars      == <<parseVars, clsVars, ghVars, dashVars, webVars>>

(***************************************************************************)
(* Bounds of the model.                                                    *)
(***************************************************************************)
MaxResults == 2        \* entries of a report's result list
MaxVulns == 2          \* vulnerabilities of one container-scan target
MaxTargets == 2        \* targets of a container-scan report
MaxRuns == 2           \* workflow runs the CI provider starts

(***************************************************************************)
(* Python str operations on character sequences.                           *)
(***************************************************************************)
LowerLetters ==
    <<"a","b","c","d","e","f","g","h","i","j","k","l","m",
      "n","o","p","q","r","s","t","u","v","w","x","y","z">>

UpperLetters ==
    <<"A","B","C","D","E","F","G","H","I","J","K","L","M",
      "N","O","P","Q","R","S","T","U","V","W","X","Y","Z">>

UpperChar(c) ==
    IF \E i \in DOMAIN LowerLetters : LowerLetters[i] = c
    THEN UpperLetters[CHOOSE i \in DOMAIN LowerLetters : LowerLetters[i] = c]
    ELSE c

LowerChar(c) ==
    IF \E i \in DOMAIN UpperLetters : UpperLetters[i] = c
    THEN LowerLetters[CHOOSE i \in DOMAIN UpperLetters : UpperLetters[i] = c]
    ELSE c

\* str.upper()
Upper(s) == [i \in DOMAIN s |-> UpperChar(s[i])]

\* str.lower()
Lower(s) == [i \in DOMAIN s |-> LowerChar(s[i])]

\* s.startswith(p)
StartsWith(s, p) == Len(p) <= Len(s) /\ SubSeq(s, 1, Len(p)) = p

\* sub in s
Contains(s, sub) ==
    \E i \in 0..(Len(s) - Len(sub)) : SubSeq(s, i + 1, i + Len(sub)) = sub

\* s[:n]
Take(s, n) == SubSeq(s, 1, IF Len(s) < n THEN Len(s) ELSE n)

(***************************************************************************)
(* Decoded JSON values (json.load) and Python dicts.                       *)
(***************************************************************************)
JNull    == [t |-> "null", n |-> 0, s |-> <<>>, l |-> <<>>, o |-> <<>>]
JNum(n)  == [t |-> "num",  n |-> n, s |-> <<>>, l |-> <<>>, o |-> <<>>]
JStr(s)  == [t |-> "str",  n |-> 0, s |-> s,    l |-> <<>>, o |-> <<>>]
JList(l) == [t |-> "list", n |-> 0, s |-> <<>>, l |-> l,    o |-> <<>>]
JObj(o)  == [t |-> "obj",  n |-> 0, s |-> <<>>, l |-> <<>>, o |-> o]
\* true and false, as n = 1 and n = 0
JBool(b) == [t |-> "bool", n |-> IF b THEN 1 ELSE 0, s |-> <<>>, l |-> <<>>, o |-> <<>>]

HasKey(d, k) == \E i \in DOMAIN d : d[i].k = k

\* dict.get(k, default)
DictGet(d, k, default) ==
    IF HasKey(d, k) THEN d[CHOOSE i \in DOMAIN d : d[i].k = k].v ELSE default

\* d[k] = v
DictSet(d, k, v) ==
    IF HasKey(d, k)
    THEN [i \in DOMAIN d |-> IF d[i].k = k THEN [k |-> k, v |-> v] ELSE d[i]]
    ELSE Append(d, [k |-> k, v |-> v])

\* len(x) is defined for str, list and dict and raises TypeError otherwise
HasLen(j) == j.t \in {"str", "list", "obj"}

PyLen(j) == IF j.t = "str" THEN Len(j.s)
            ELSE IF j.t = "list" THEN Len(j.l)
            ELSE Len(j.o)

\* "for x in j": a list yields its items, a dict its keys and a str its
\* characters (both str); a number or None raises TypeError
Iterable(j) == j.t \in {"str", "list", "obj"}

PyIter(j) == IF j.t = "list" THEN j.l
             ELSE IF j.t = "str" THEN [i \in DOMAIN j.s |-> JStr(<<j.s[i]>>)]
             ELSE [i \in DOMAIN j.o |-> JStr(<<j.o[i].k>>)]

(***************************************************************************)
(* String literals of the code.                                            *)
(***************************************************************************)
Str_OK      == <<"O","K">>
Str_WARN    == <<"W","A","R","N">>
Str_FAIL    == <<"F","A","I","L">>
Str_ERROR   == <<"E","R","R","O","R">>
Str_NA      == <<"N","/","A">>
Str_HIGH    == <<"H","I","G","H">>
Str_MEDIUM  == <<"M","E","D","I","U","M">>
Str_LOW     == <<"L","O","W">>
Str_unknown == <<"u","n","k","n","o","w","n">>
Str_empty   == <<>>

(***************************************************************************)
(* Report files.  kind is "absent" (os.path.exists is false), "unreadable" *)
(* (open raises OSError), "undecodable" (the bytes are neither JSON nor    *)
(* XML), "json" (doc is the decoded document) or "xml" (rate is the root   *)
(* element's line-rate attribute).                                         *)
(***************************************************************************)
NoRate == [t |-> "absent", n |-> 0]

AbsentFile      == [kind |-> "absent",      doc |-> JNull, rate |-> NoRate]
UnreadableFile  == [kind |-> "unreadable",  doc |-> JNull, rate |-> NoRate]
UndecodableFile == [kind |-> "undecodable", doc |-> JNull, rate |-> NoRate]
JsonFile(doc)   == [kind |-> "json",        doc |-> doc,   rate |-> NoRate]
XmlFile(rate)   == [kind |-> "xml",         doc |-> JNull, rate |-> rate]

ReportPaths == {"bandit-report.json", "safety.json", "coverage.xml", "trivy.json"}

NotRun == [status |-> <<>>]

\* json.load(open(path)) raises: OSError from open, JSONDecodeError from load
JsonLoadRaises(file) == file.kind # "json"

JsonLoadError(file) ==
    IF file.kind = "unreadable" THEN "[Errno 13] Permission denied"
    ELSE "Expecting value: line 1 column 1 (char 0)"

(***************************************************************************)
(* load_bandit_results                                                     *)
(***************************************************************************)
\* result.get("issue_severity", "LOW")
BanditSeverityField(result) == DictGet(result.o, "issue_severity", JStr(Str_LOW))

\* result.get("issue_cwe", {})
BanditCweField(result) == DictGet(result.o, "issue_cwe", JObj(<<>>))

\* the body of the for loop raises AttributeError on this entry
BanditEntryRaises(result) ==
    \/ result.t # "obj"
    \/ BanditSeverityField(result).t # "str"
    \/ BanditCweField(result).t # "obj"

BanditFinding(result) ==
    [severity   |-> JStr(Upper(BanditSeverityField(result).s)),
     file       |-> DictGet(result.o, "filename", JStr(Str_unknown)),
     line       |-> DictGet(result.o, "line_number", JNum(0)),
     issue      |-> DictGet(result.o, "issue_text", JStr(Str_empty)),
     confidence |-> DictGet(result.o, "issue_confidence", JStr(Str_empty)),
     test_id    |-> DictGet(result.o, "test_id", JStr(Str_empty)),
     cwe_link   |-> DictGet(BanditCweField(result).o, "link", JStr(Str_empty)),
     more_info  |-> DictGet(result.o, "more_info", JStr(Str_empty))]

\* the loop counting each entry under its severity as written, without
\* upper() (mutant for C4)
RECURSIVE BanditSeverities_NoUpper(_, _)
BanditSeverities_NoUpper(items, n) ==
    IF n = 0
    THEN <<[k |-> Str_HIGH, v |-> 0], [k |-> Str_MEDIUM, v |-> 0], [k |-> Str_LOW, v |-> 0]>>
    ELSE LET before == BanditSeverities_NoUpper(items, n - 1)
             sev    == BanditSeverityField(items[n]).s
         IN  DictSet(before, sev, DictGet(before, sev, 0) + 1)

\* severities after the loop has run over items[1..n]
RECURSIVE BanditSeverities(_, _)
BanditSeverities(items, n) ==
    IF n = 0
    THEN <<[k |-> Str_HIGH, v |-> 0], [k |-> Str_MEDIUM, v |-> 0], [k |-> Str_LOW, v |-> 0]>>
    ELSE LET before == BanditSeverities(items, n - 1)
             sev    == Upper(BanditSeverityField(items[n]).s)
         IN  DictSet(before, sev, DictGet(before, sev, 0) + 1)

\* the status expression testing the HIGH count only (mutant for C3)
BanditStatus_HighOnly(issues, severities) ==
    IF issues = 0 THEN Str_OK
    ELSE IF DictGet(severities, Str_HIGH, 0) = 0 THEN Str_WARN ELSE Str_FAIL

\* "OK" if issues == 0 else ("WARN" if no HIGH and no MEDIUM else "FAIL")
BanditStatus(issues, severities) ==
    IF issues = 0 THEN Str_OK
    ELSE IF DictGet(severities, Str_HIGH, 0) = 0 /\ DictGet(severities, Str_MEDIUM, 0) = 0
         THEN Str_WARN
         ELSE Str_FAIL

\* the try block raises: data is no dict, results has no len() or an entry
\* of it is not of the expected type
BanditRaises(file) ==
    \/ JsonLoadRaises(file)
    \/ file.doc.t # "obj"
    \/ LET results == DictGet(file.doc.o, "results", JList(<<>>))
       IN  \/ ~HasLen(results)
           \/ \E i \in DOMAIN PyIter(results) : BanditEntryRaises(PyIter(results)[i])

BanditError(file) ==
    IF JsonLoadRaises(file) THEN JsonLoadError(file)
    ELSE IF file.doc.t # "obj" THEN "object has no attribute 'get'"
    ELSE IF ~HasLen(DictGet(file.doc.o, "results", JList(<<>>))) THEN "object has no len()"
    ELSE "object has no attribute"

load_bandit_results(file) ==
    IF file.kind = "absent"
    THEN [status |-> Str_NA, issues |-> 0, severity |-> <<>>, findings |-> <<>>]
    ELSE IF BanditRaises(file)
    THEN [status |-> Str_ERROR, issues |-> 0, severity |-> <<>>, findings |-> <<>>,
          error |-> BanditError(file)]
    ELSE LET results    == DictGet(file.doc.o, "results", JList(<<>>))
             items      == PyIter(results)
             issues     == PyLen(results)
             severities == BanditSeverities(items, Len(items))
         IN  [status   |-> BanditStatus(issues, severities),
              issues   |-> issues,
              severity |-> severities,
              findings |-> [i \in DOMAIN items |-> BanditFinding(items[i])]]

(***************************************************************************)
(* Truncation of free text: text[:limit] + "..." if len(text) > limit else *)
(* text.  A str longer than the limit is cut; a list or dict longer than   *)
(* the limit raises TypeError; None and numbers have no len().             *)
(***************************************************************************)
AdvisoryLimit == 200
TitleLimit == 100

Str_ellipsis == <<".", ".", ".">>

EllipsisRaises(text, limit) ==
    \/ ~HasLen(text)
    \/ PyLen(text) > limit /\ text.t # "str"

Ellipsis(text, limit) ==
    IF PyLen(text) > limit THEN JStr(Take(text.s, limit) \o Str_ellipsis) ELSE text

\* text[:limit]
SliceRaises(text) == text.t \notin {"str", "list"}

Slice(text, limit) ==
    IF text.t = "str" THEN JStr(Take(text.s, limit)) ELSE JList(Take(text.l, limit))

(***************************************************************************)
(* load_safety_results                                                     *)
(***************************************************************************)
SafetyEntryRaises(vuln) ==
    \/ vuln.t # "obj"
    \/ EllipsisRaises(DictGet(vuln.o, "advisory", JStr(Str_empty)), AdvisoryLimit)

SafetyFinding(vuln) ==
    [package         |-> DictGet(vuln.o, "package_name", JStr(Str_unknown)),
     version         |-> DictGet(vuln.o, "analyzed_version", JStr(Str_empty)),
     cve             |-> DictGet(vuln.o, "CVE", JStr(Str_NA)),
     advisory        |-> Ellipsis(DictGet(vuln.o, "advisory", JStr(Str_empty)), AdvisoryLimit),
     vulnerable_spec |-> DictGet(vuln.o, "vulnerable_spec", JStr(Str_empty)),
     more_info       |-> DictGet(vuln.o, "more_info_url", JStr(Str_empty))]

\* the value bound to "vulnerabilities" by the isinstance branch
SafetyVulnerabilities(data) ==
    IF data.t = "list" THEN data
    ELSE DictGet(data.o, "vulnerabilities", JList(<<>>))

\* the else branch taking len(data) instead of len(vulnerabilities)
\* (mutant for C5)
SafetyVulns_LenOfData(data) ==
    IF data.t = "list" THEN Len(data.l) ELSE PyLen(data)

\* the value bound to "vulns" by the isinstance branch
SafetyVulns(data) ==
    IF data.t = "list" THEN Len(data.l)
    ELSE PyLen(DictGet(data.o, "vulnerabilities", JList(<<>>)))

SafetyRaises(file) ==
    \/ JsonLoadRaises(file)
    \/ file.doc.t \notin {"list", "obj"}
    \/ LET vulnerabilities == SafetyVulnerabilities(file.doc)
       IN  \/ ~HasLen(vulnerabilities)
           \/ \E i \in DOMAIN PyIter(vulnerabilities) :
                  SafetyEntryRaises(PyIter(vulnerabilities)[i])

SafetyError(file) ==
    IF JsonLoadRaises(file) THEN JsonLoadError(file)
    ELSE IF file.doc.t \notin {"list", "obj"} THEN "object has no attribute 'get'"
    ELSE IF ~HasLen(SafetyVulnerabilities(file.doc)) THEN "object has no len()"
    ELSE "object has no attribute"

load_safety_results(file) ==
    IF file.kind = "absent"
    THEN [status |-> Str_NA, vulns |-> 0, vulnerabilities |-> <<>>]
    ELSE IF SafetyRaises(file)
    THEN [status |-> Str_ERROR, vulns |-> 0, vulnerabilities |-> <<>>,
          error |-> SafetyError(file)]
    ELSE LET items == PyIter(SafetyVulnerabilities(file.doc))
             vulns == SafetyVulns(file.doc)
         IN  [status          |-> IF vulns = 0 THEN Str_OK ELSE Str_FAIL,
              vulns           |-> vulns,
              vulnerabilities |-> [i \in DOMAIN items |-> SafetyFinding(items[i])]]

(***************************************************************************)
(* load_coverage.  A numeric line-rate is held in units of 1/100000, so    *)
(* line-rate * 100 is rate.n thousandths of a percent and the reported     *)
(* coverage is in hundredths of a percent.  round(x, 2) rounds the binary  *)
(* float: at a decimal tie the direction depends on the representation     *)
(* error of the product and is the parameter "tie" (0 down, 1 up).         *)
(***************************************************************************)
\* round(coverage, 2), in hundredths of a percent
Round2(thousandths, tie) ==
    LET q == thousandths \div 10
        r == thousandths % 10
    IN  IF r < 5 THEN q
        ELSE IF r > 5 THEN q + 1
        ELSE q + tie

\* coverage >= 80, on the unrounded product
CoverageStatus(thousandths) == IF thousandths >= 80000 THEN Str_OK ELSE Str_WARN

\* ET.parse raises on anything but well-formed XML; float() on a non-number
CoverageRaises(file) ==
    \/ file.kind # "xml"
    \/ file.rate.t = "text"

CoverageError(file) ==
    IF file.kind = "unreadable" THEN "[Errno 13] Permission denied"
    ELSE IF file.kind # "xml" THEN "syntax error: line 1, column 0"
    ELSE "could not convert string to float"

CoverageFailed(file) ==
    [status |-> Str_ERROR, coverage |-> 0, error |-> CoverageError(file)]

\* the try block of load_coverage when nothing raises
CoverageParsed(file, tie) ==
    LET thousandths == IF file.rate.t = "absent" THEN 0 ELSE file.rate.n
    IN  [status   |-> CoverageStatus(thousandths),
         coverage |-> Round2(thousandths, tie)]

\* load_coverage without its os.path.exists test (mutant for C1)
load_coverage_NoExistsCheck(file, tie) ==
    IF CoverageRaises(file) THEN CoverageFailed(file) ELSE CoverageParsed(file, tie)

load_coverage(file, tie) ==
    IF file.kind = "absent"
    THEN [status |-> Str_NA, coverage |-> 0]
    ELSE IF CoverageRaises(file)
    THEN CoverageFailed(file)
    ELSE CoverageParsed(file, tie)

(***************************************************************************)
(* load_trivy_results                                                      *)
(***************************************************************************)
Str_NotAvailable == <<"N","o","t"," ","a","v","a","i","l","a","b","l","e">>
Str_UNKNOWN      == <<"U","N","K","N","O","W","N">>

TrivyVulnRaises(vuln) ==
    \/ vuln.t # "obj"
    \/ SliceRaises(DictGet(vuln.o, "Title", JStr(Str_empty)))
    \/ EllipsisRaises(DictGet(vuln.o, "Description", JStr(Str_empty)), AdvisoryLimit)

TrivyFinding(target, vuln) ==
    [target            |-> target,
     vuln_id           |-> DictGet(vuln.o, "VulnerabilityID", JStr(Str_empty)),
     package           |-> DictGet(vuln.o, "PkgName", JStr(Str_empty)),
     installed_version |-> DictGet(vuln.o, "InstalledVersion", JStr(Str_empty)),
     fixed_version     |-> DictGet(vuln.o, "FixedVersion", JStr(Str_NotAvailable)),
     severity          |-> DictGet(vuln.o, "Severity", JStr(Str_UNKNOWN)),
     title             |-> Slice(DictGet(vuln.o, "Title", JStr(Str_empty)), TitleLimit),
     description       |-> Ellipsis(DictGet(vuln.o, "Description", JStr(Str_empty)),
                                    AdvisoryLimit)]

\* r.get("Vulnerabilities", [])
TrivyVulnsField(r) == DictGet(r.o, "Vulnerabilities", JList(<<>>))

TrivyTargetRaises(r) ==
    \/ r.t # "obj"
    \/ ~Iterable(TrivyVulnsField(r))
    \/ \E i \in DOMAIN PyIter(TrivyVulnsField(r)) :
           TrivyVulnRaises(PyIter(TrivyVulnsField(r))[i])

\* the findings appended by the inner loop for one target
TrivyTargetFindings(r) ==
    LET target == DictGet(r.o, "Target", JStr(Str_unknown))
        vulns  == PyIter(TrivyVulnsField(r))
    IN  [i \in DOMAIN vulns |-> TrivyFinding(target, vulns[i])]

\* findings after the outer loop has run over results[1..n]
RECURSIVE TrivyFindings(_, _)
TrivyFindings(results, n) ==
    IF n = 0 THEN <<>>
    ELSE TrivyFindings(results, n - 1) \o TrivyTargetFindings(results[n])

\* total_vulns incremented once per target instead of once per
\* vulnerability (mutant for C7)
TrivyTotal_PerTarget(results, n) == n

\* total_vulns after the outer loop has run over results[1..n]
RECURSIVE TrivyTotal(_, _)
TrivyTotal(results, n) ==
    IF n = 0 THEN 0
    ELSE TrivyTotal(results, n - 1) + Len(PyIter(TrivyVulnsField(results[n])))

TrivyRaises(file) ==
    \/ JsonLoadRaises(file)
    \/ file.doc.t # "obj"
    \/ LET results == DictGet(file.doc.o, "Results", JList(<<>>))
       IN  \/ ~Iterable(results)
           \/ \E i \in DOMAIN PyIter(results) : TrivyTargetRaises(PyIter(results)[i])

TrivyError(file) ==
    IF JsonLoadRaises(file) THEN JsonLoadError(file)
    ELSE IF file.doc.t # "obj" THEN "object has no attribute 'get'"
    ELSE IF ~Iterable(DictGet(file.doc.o, "Results", JList(<<>>))) THEN "object is not iterable"
    ELSE "object has no attribute"

load_trivy_results(file) ==
    IF file.kind = "absent"
    THEN [status |-> Str_NA, vulns |-> 0, vulnerabilities |-> <<>>]
    ELSE IF TrivyRaises(file)
    THEN [status |-> Str_ERROR, vulns |-> 0, vulnerabilities |-> <<>>,
          error |-> TrivyError(file)]
    ELSE LET results     == PyIter(DictGet(file.doc.o, "Results", JList(<<>>)))
             total_vulns == TrivyTotal(results, Len(results))
         IN  [status          |-> IF total_vulns = 0 THEN Str_OK ELSE Str_FAIL,
              vulns           |-> total_vulns,
              vulnerabilities |-> TrivyFindings(results, Len(results))]

(***************************************************************************)
(* status_class (dashboard) and its client-side twin getStatusClass.       *)
(***************************************************************************)
Str_ok         == <<"o","k">>
Str_success    == <<"s","u","c","c","e","s","s">>
Str_warn       == <<"w","a","r","n">>
Str_fail       == <<"f","a","i","l">>
Str_failure    == <<"f","a","i","l","u","r","e">>
Str_error      == <<"e","r","r","o","r">>
Str_progress   == <<"p","r","o","g","r","e","s","s">>
Str_queued     == <<"q","u","e","u","e","d">>
Str_inprogress == <<"i","n","-","p","r","o","g","r","e","s","s">>
Str_skipped    == <<"s","k","i","p","p","e","d">>
Str_cancelled  == <<"c","a","n","c","e","l","l","e","d">>
Str_na         == <<"n","a">>

\* the chain of tests with the "progress" test moved to the front
\* (mutant for C8)
status_class_ProgressFirst(status) ==
    LET s == Lower(status)
    IN  IF Contains(s, Str_progress) \/ s = Str_queued THEN Str_inprogress
        ELSE IF StartsWith(s, Str_ok) \/ s = Str_success THEN Str_ok
        ELSE IF StartsWith(s, Str_warn) THEN Str_warn
        ELSE IF StartsWith(s, Str_fail) \/ s = Str_failure THEN Str_fail
        ELSE IF s = Str_error THEN Str_error
        ELSE IF s = Str_skipped \/ s = Str_cancelled THEN Str_skipped
        ELSE Str_na

status_class(status) ==
    LET s == Lower(status)
    IN  IF StartsWith(s, Str_ok) \/ s = Str_success THEN Str_ok
        ELSE IF StartsWith(s, Str_warn) THEN Str_warn
        ELSE IF StartsWith(s, Str_fail) \/ s = Str_failure THEN Str_fail
        ELSE IF s = Str_error THEN Str_error
        ELSE IF Contains(s, Str_progress) \/ s = Str_queued THEN Str_inprogress
        ELSE IF s = Str_skipped \/ s = Str_cancelled THEN Str_skipped
        ELSE Str_na

(***************************************************************************)
(* The CI provider as the fetcher sees it: responses to requests.get.      *)
(* kind is "exception" (requests raises a RequestException: timeout,       *)
(* connection error) or "http"; decodes says whether response.json()       *)
(* returns body or raises.                                                 *)
(***************************************************************************)
NoResponse == [kind |-> "none", code |-> 0, decodes |-> FALSE, body |-> JNull]

Timeout == [kind |-> "exception", code |-> 0, decodes |-> FALSE, body |-> JNull]

Http(code, decodes, body) ==
    [kind |-> "http", code |-> code, decodes |-> decodes, body |-> body]

ErrorCodes == {403, 500}

Str_completed   == <<"c","o","m","p","l","e","t","e","d">>
Str_in_progress == <<"i","n","_","p","r","o","g","r","e","s","s">>
Str_none        == <<"n","o","n","e">>
Str_main        == <<"m","a","i","n">>
Str_sha         == <<"0","1","2","3","4","5","6","7","8">>

\* a workflow run of the provider's run list
Run(id, status, conclusion) ==
    JObj(<<[k |-> "id", v |-> JNum(id)],
           [k |-> "status", v |-> JStr(status)],
           [k |-> "conclusion", v |-> conclusion],
           [k |-> "head_branch", v |-> JStr(Str_main)],
           [k |-> "head_sha", v |-> JStr(Str_sha)]>>)

RunStates ==
    { <<Str_completed, JStr(Str_success)>>,
      <<Str_completed, JStr(Str_failure)>>,
      <<Str_in_progress, JNull>> }

\* GET /repos/{repo}/actions/runs?per_page=1
RunsResponses(newest) ==
    {Timeout}
    \cup {Http(c, TRUE, JObj(<<>>)) : c \in ErrorCodes}
    \cup {Http(200, FALSE, JNull)}
    \cup (IF newest = 0
          THEN {Http(200, TRUE, JObj(<<[k |-> "total_count", v |-> JNum(0)],
                                      [k |-> "workflow_runs", v |-> JList(<<>>)]>>))}
          ELSE {Http(200, TRUE, JObj(<<[k |-> "total_count", v |-> JNum(newest)],
                                      [k |-> "workflow_runs",
                                       v |-> JList(<<Run(newest, st[1], st[2])>>)]>>)) :
                  st \in RunStates})

Job(name, status, conclusion) ==
    JObj(<<[k |-> "name", v |-> JStr(name)],
           [k |-> "status", v |-> JStr(status)],
           [k |-> "conclusion", v |-> conclusion]>>)

Str_UnitTests == <<"U","n","i","t"," ","T","e","s","t","s">>
Str_BuildScan == <<"B","u","i","l","d"," ","&"," ","S","c","a","n"," ","(","D","o","c","k","e","r",")">>

JobLists ==
    { <<>>,
      <<Job(Str_UnitTests, Str_completed, JStr(Str_success)),
        Job(Str_BuildScan, Str_in_progress, JNull)>>,
      <<JObj(<<[k |-> "status", v |-> JStr(Str_completed)]>>)>> }

\* GET /repos/{repo}/actions/runs/{run_id}/jobs
JobsResponses ==
    {Timeout}
    \cup {Http(c, TRUE, JObj(<<>>)) : c \in ErrorCodes}
    \cup {Http(200, FALSE, JNull)}
    \cup {Http(200, TRUE, JObj(<<[k |-> "jobs", v |-> JList(l)]>>)) : l \in JobLists}

\* the build artifacts the fetcher looks for and the report each refreshes
Artifacts ==
    << [name |-> "bandit-security-report", save_path |-> "bandit-report.json"],
       [name |-> "safety-report",          save_path |-> "safety.json"],
       [name |-> "coverage-report",        save_path |-> "coverage.xml"],
       [name |-> "trivy-report",           save_path |-> "trivy.json"] >>

\* GET .../runs/{run_id}/artifacts: the list holds the artifact of that name
\* or nothing
ArtifactsResponses(name) ==
    {Timeout}
    \cup {Http(c, TRUE, JObj(<<>>)) : c \in ErrorCodes}
    \cup {Http(200, TRUE, JObj(<<[k |-> "artifacts", v |-> JList(<<>>)]>>)),
          Http(200, TRUE, JObj(<<[k |-> "artifacts", v |-> JList(<<
              JObj(<<[k |-> "name", v |-> JStr(<<name>>)],
                     [k |-> "archive_download_url", v |-> JStr(<<"zip">>)]>>)>>)]>>))}

\* GET archive_download_url: the body is a zip archive of one member (the
\* path it is extracted to) or, with member "", no zip archive at all
DownloadResponses ==
    { [kind |-> "exception", code |-> 0, member |-> ""] }
    \cup { [kind |-> "http", code |-> c, member |-> ""] : c \in ErrorCodes \cup {200} }
    \cup { [kind |-> "http", code |-> 200, member |-> m] : m \in ReportPaths }

(***************************************************************************)
(* Python truthiness, indexing and the str methods of the job-key          *)
(* normalisation.                                                          *)
(***************************************************************************)
\* "not x"
Falsy(j) == \/ j.t = "null"
            \/ j.t \in {"num", "bool"} /\ j.n = 0
            \/ j.t \in {"str", "list", "obj"} /\ PyLen(j) = 0

\* s.replace(c, r) for a one-character c
RECURSIVE ReplaceChar(_, _, _)
ReplaceChar(s, c, r) ==
    IF s = <<>> THEN <<>>
    ELSE (IF Head(s) = c THEN r ELSE <<Head(s)>>) \o ReplaceChar(Tail(s), c, r)

Whitespace == {" ", "\t", "\n"}

RECURSIVE LStrip(_)
LStrip(s) == IF s # <<>> /\ Head(s) \in Whitespace THEN LStrip(Tail(s)) ELSE s

RECURSIVE RStrip(_)
RStrip(s) ==
    IF s # <<>> /\ s[Len(s)] \in Whitespace THEN RStrip(SubSeq(s, 1, Len(s) - 1)) ELSE s

\* s.strip()
Strip(s) == RStrip(LStrip(s))

\* job["name"].lower().replace(" ", "-").replace("&", "").replace("(", "")
\*     .replace(")", "").strip()
JobKey(name) ==
    Strip(ReplaceChar(ReplaceChar(ReplaceChar(ReplaceChar(Lower(name),
              " ", <<"-">>), "&", <<>>), "(", <<>>), ")", <<>>))

(***************************************************************************)
(* get_github_actions_status: the values it returns.                       *)
(***************************************************************************)
NoCredentials == [GITHUB_TOKEN |-> "", GITHUB_REPOSITORY |-> ""]

\* the test with "and" in place of "or" (mutant for C9)
CredentialsMissing_Both(e) == e.GITHUB_TOKEN = "" /\ e.GITHUB_REPOSITORY = ""

\* "not github_token or not github_repo"
CredentialsMissing(e) == e.GITHUB_TOKEN = "" \/ e.GITHUB_REPOSITORY = ""

\* missing credentials reported as a failure (mutant for C19)
NotConfigured_AsError ==
    [status  |-> Str_ERROR,
     jobs    |-> <<>>,
     run_id  |-> JNull,
     run_url |-> JNull,
     branch  |-> JNull,
     commit  |-> JNull,
     error   |-> "GitHub credentials not configured"]

NotConfigured ==
    [status  |-> Str_NA,
     jobs    |-> <<>>,
     run_id  |-> JNull,
     run_url |-> JNull,
     branch  |-> JNull,
     commit  |-> JNull,
     message |-> "GitHub credentials not configured"]

\* an empty run list reported as a failure (mutant for C11)
NoRuns_AsError == [status |-> Str_ERROR, jobs |-> <<>>, error |-> "No workflow runs found"]

\* the return of "if not runs"
NoRuns == [status |-> Str_NA, jobs |-> <<>>, message |-> "No workflow runs found"]

Failed(error) == [status |-> Str_ERROR, error |-> error, jobs |-> <<>>]

\* the error text that leaves the response's status code out (mutant for C10)
HttpError_NoCode(prefix, code) == Failed(prefix)

\* f"API returned {response.status_code}", f"Jobs API returned {...}"
HttpError(prefix, code) == Failed(prefix \o ToString(code))

\* the handler that drops the failure text str(e) (mutant for C13)
RequestFailed_NoText(text) == Failed("Request failed: ")

\* except requests.exceptions.RequestException as e
RequestFailed(text) == Failed("Request failed: " \o text)

\* str(e) of the exceptions requests raises: from requests.get on a timeout,
\* from response.json() on a body that is not JSON
TimedOut == "Read timed out. (read timeout=10)"
NotJson  == "Expecting value: line 1 column 1 (char 0)"

\* except Exception as e: str(e)
Raised(text) == Failed(text)

\* the jobs dict after the loop has run over items[1..n]
RECURSIVE JobsDict(_, _)
JobsDict(items, n) ==
    IF n = 0 THEN <<>>
    ELSE DictSet(JobsDict(items, n - 1),
                 JobKey(DictGet(items[n].o, "name", JNull).s),
                 [status       |-> DictGet(items[n].o, "status", JStr(Str_unknown)),
                  conclusion   |-> DictGet(items[n].o, "conclusion", JStr(Str_none)),
                  started_at   |-> DictGet(items[n].o, "started_at", JNull),
                  completed_at |-> DictGet(items[n].o, "completed_at", JNull),
                  html_url     |-> DictGet(items[n].o, "html_url", JNull)])

\* job["name"] raises KeyError, job.get or .lower() AttributeError
JobRaises(job) ==
    \/ job.t # "obj"
    \/ ~HasKey(job.o, "name")
    \/ DictGet(job.o, "name", JNull).t # "str"

\* latest_run.get("conclusion", latest_run.get("status", "unknown"))
OverallField(run) ==
    DictGet(run.o, "conclusion", DictGet(run.o, "status", JStr(Str_unknown)))

\* the code after the job-list request, given a 200 response: what it returns
AfterJobs(run, resp) ==
    IF ~resp.decodes THEN RequestFailed(NotJson)
    ELSE IF resp.body.t # "obj" THEN Raised("object has no attribute 'get'")
    ELSE LET field == DictGet(resp.body.o, "jobs", JList(<<>>))
         IN  IF ~Iterable(field) THEN Raised("object is not iterable")
             ELSE IF \E i \in DOMAIN PyIter(field) : JobRaises(PyIter(field)[i])
             THEN Raised("'name'")
             ELSE IF OverallField(run).t # "str"
             THEN Raised("'NoneType' object has no attribute 'upper'")
             ELSE IF SliceRaises(DictGet(run.o, "head_sha", JStr(Str_empty)))
             THEN Raised("object is not subscriptable")
             ELSE [status        |-> Upper(OverallField(run).s),
                   jobs          |-> JobsDict(PyIter(field), Len(PyIter(field))),
                   run_id        |-> DictGet(run.o, "id", JNull),
                   run_url       |-> DictGet(run.o, "html_url", JNull),
                   branch        |-> DictGet(run.o, "head_branch", JNull),
                   commit        |-> Slice(DictGet(run.o, "head_sha", JStr(Str_empty)), 7),
                   created_at    |-> DictGet(run.o, "created_at", JNull),
                   updated_at    |-> DictGet(run.o, "updated_at", JNull),
                   event         |-> DictGet(run.o, "event", JNull),
                   workflow_name |-> DictGet(run.o, "name", JNull)]

(***************************************************************************)
(* get_github_actions_status and download_github_artifact as steps: one    *)
(* action per request to the CI provider, with the code that follows it up *)
(* to the next request or the return.                                      *)
(***************************************************************************)
GhIdle == [pc |-> "idle", latest_run |-> JNull, art |-> 0, dlpc |-> "none", dl_run |-> 0]

NoCalls == [runs |-> 0, artifacts |-> 0, download |-> 0, jobs |-> 0]

\* a run-list response from which the code takes workflow_runs[0]["id"]
HasRun(resp) ==
    /\ resp.kind = "http" /\ resp.code = 200 /\ resp.decodes
    /\ resp.body.t = "obj"
    /\ LET runs == DictGet(resp.body.o, "workflow_runs", JList(<<>>))
       IN  /\ runs.t = "list" /\ ~Falsy(runs)
           /\ runs.l[1].t = "obj" /\ HasKey(runs.l[1].o, "id")

FirstRun(resp) == DictGet(resp.body.o, "workflow_runs", JList(<<>>)).l[1]

\* the value get_github_actions_status returns right after the run-list
\* request; only applied to responses without HasRun
AfterRunList(resp) ==
    IF resp.kind = "exception" THEN RequestFailed(TimedOut)
    ELSE IF resp.code # 200 THEN HttpError("API returned ", resp.code)
    ELSE IF ~resp.decodes THEN RequestFailed(NotJson)
    ELSE IF resp.body.t # "obj" THEN Raised("object has no attribute 'get'")
    ELSE IF Falsy(DictGet(resp.body.o, "workflow_runs", JList(<<>>))) THEN NoRuns
    ELSE Raised("'id'")

GH_NotConfigured ==
    /\ trivy # NotRun
    /\ gh.pc = "idle"
    /\ CredentialsMissing(env)
    /\ github_actions' = NotConfigured
    /\ gh' = [gh EXCEPT !.pc = "done"]
    /\ UNCHANGED <<parseVars, clsVars, dashVars, webVars, env, latest, calls, runsResp, jobsResp, jobsRun, dlFrom>>

GH_RunList ==
    /\ trivy # NotRun
    /\ gh.pc = "idle"
    /\ ~CredentialsMissing(env)
    /\ calls' = [calls EXCEPT !.runs = @ + 1]
    /\ \E resp \in RunsResponses(latest) :
          /\ runsResp' = resp
          /\ IF HasRun(resp)
             THEN /\ gh' = [gh EXCEPT !.pc = "dl", !.latest_run = FirstRun(resp),
                                      !.art = 1, !.dlpc = "runs"]
                  /\ UNCHANGED github_actions
             ELSE /\ gh' = [gh EXCEPT !.pc = "done"]
                  /\ github_actions' = AfterRunList(resp)
    /\ UNCHANGED <<parseVars, clsVars, dashVars, webVars, env, latest, jobsResp, jobsRun, dlFrom>>

\* download_github_artifact returns: on to the next artifact or the job list
DlReturn(g) ==
    IF g.art < Len(Artifacts)
    THEN [g EXCEPT !.art = @ + 1, !.dlpc = "runs", !.dl_run = 0]
    ELSE [g EXCEPT !.pc = "jobs", !.art = 0, !.dlpc = "none", !.dl_run = 0]

\* download_github_artifact up to its own run-list request and the code
\* after it
DL_RunList ==
    /\ gh.pc = "dl"
    /\ gh.dlpc = "runs"
    /\ IF CredentialsMissing(env)
       THEN /\ gh' = DlReturn(gh)
            /\ UNCHANGED calls
       ELSE /\ calls' = [calls EXCEPT !.runs = @ + 1]
            /\ \E resp \in RunsResponses(latest) :
                  gh' = IF HasRun(resp) /\ DictGet(FirstRun(resp).o, "id", JNull).t = "num"
                        THEN [gh EXCEPT !.dlpc = "artifacts",
                                        !.dl_run = DictGet(FirstRun(resp).o, "id", JNull).n]
                        ELSE DlReturn(gh)
    /\ UNCHANGED <<parseVars, clsVars, dashVars, webVars, env, latest, runsResp, jobsResp, jobsRun, dlFrom,
                   github_actions>>

\* the artifact-list request and the search for the artifact's name
DL_Artifacts ==
    /\ gh.pc = "dl"
    /\ gh.dlpc = "artifacts"
    /\ calls' = [calls EXCEPT !.artifacts = @ + 1]
    /\ \E resp \in ArtifactsResponses(Artifacts[gh.art].name) :
          gh' = IF /\ resp.kind = "http" /\ resp.code = 200 /\ resp.decodes
                   /\ \E i \in DOMAIN DictGet(resp.body.o, "artifacts", JList(<<>>)).l :
                          DictGet(DictGet(resp.body.o, "artifacts", JList(<<>>)).l[i].o,
                                  "name", JNull) = JStr(<<Artifacts[gh.art].name>>)
                THEN [gh EXCEPT !.dlpc = "download"]
                ELSE DlReturn(gh)
    /\ UNCHANGED <<parseVars, clsVars, dashVars, webVars, env, latest, runsResp, jobsResp, jobsRun, dlFrom,
                   github_actions>>

(***************************************************************************)
(* Report files as a CI run publishes them, and as an earlier run left     *)
(* them on disk.                                                           *)
(***************************************************************************)
Downloaded(path) ==
    IF path = "bandit-report.json"
    THEN JsonFile(JObj(<<[k |-> "results", v |-> JList(<<
             JObj(<<[k |-> "issue_severity", v |-> JStr(Str_HIGH)]>>)>>)]>>))
    ELSE IF path = "safety.json"
    THEN JsonFile(JList(<<JObj(<<[k |-> "package_name", v |-> JStr(<<"p">>)]>>)>>))
    ELSE IF path = "coverage.xml"
    THEN XmlFile([t |-> "num", n |-> 85000])
    ELSE JsonFile(JObj(<<[k |-> "Results", v |-> JList(<<
             JObj(<<[k |-> "Target", v |-> JStr(<<"a">>)],
                    [k |-> "Vulnerabilities", v |-> JList(<<JObj(<<>>)>>)]>>)>>)]>>))

Stale(path) ==
    IF path = "bandit-report.json" THEN JsonFile(JObj(<<[k |-> "results", v |-> JList(<<>>)]>>))
    ELSE IF path = "safety.json" THEN JsonFile(JList(<<>>))
    ELSE IF path = "coverage.xml" THEN XmlFile([t |-> "num", n |-> 50000])
    ELSE JsonFile(JObj(<<[k |-> "Results", v |-> JList(<<>>)]>>))

\* the archive request; zipfile.extractall(os.path.dirname(save_path)) writes
\* the archive's member into the working directory
DL_Download ==
    /\ gh.pc = "dl"
    /\ gh.dlpc = "download"
    /\ calls' = [calls EXCEPT !.download = @ + 1]
    /\ \E resp \in DownloadResponses :
          IF resp.kind = "http" /\ resp.code = 200 /\ resp.member # ""
          THEN /\ files' = [files EXCEPT ![resp.member] = Downloaded(resp.member)]
               /\ dlFrom' = dlFrom \cup {gh.dl_run}
          ELSE UNCHANGED <<files, dlFrom>>
    /\ gh' = DlReturn(gh)
    /\ UNCHANGED <<bandit, safety, coverage, trivy, clsVars, dashVars, webVars, env, latest, runsResp, jobsResp,
                   jobsRun, github_actions>>

\* a job-list request keyed by the provider's newest run at the time of the
\* request (mutant for C24)
RunKey_Newest(run) == JNum(latest)

\* run_id = latest_run["id"]
RunKey(run) == DictGet(run.o, "id", JNull)

\* the job-list request for latest_run["id"] and the code after it
GH_Jobs ==
    /\ gh.pc = "jobs"
    /\ calls' = [calls EXCEPT !.jobs = @ + 1]
    /\ jobsRun' = jobsRun \cup {RunKey(gh.latest_run)}
    /\ \E resp \in JobsResponses :
          /\ jobsResp' = resp
          /\ github_actions' =
                IF resp.kind = "exception" THEN RequestFailed(TimedOut)
                ELSE IF resp.code # 200 THEN HttpError("Jobs API returned ", resp.code)
                ELSE AfterJobs(gh.latest_run, resp)
    /\ gh' = [gh EXCEPT !.pc = "done"]
    /\ UNCHANGED <<parseVars, clsVars, dashVars, webVars, env, latest, runsResp, dlFrom>>

\* the CI provider starts a workflow run while the fetcher is at work
ProviderNewRun ==
    /\ gh.pc \in {"dl", "jobs"}
    /\ latest < MaxRuns
    /\ latest' = latest + 1
    /\ UNCHANGED <<parseVars, clsVars, dashVars, webVars, env, gh, calls, runsResp, jobsResp, jobsRun, dlFrom,
                   github_actions>>

FetcherIdle ==
    /\ gh = GhIdle
    /\ calls = NoCalls
    /\ runsResp = NoResponse
    /\ jobsResp = NoResponse
    /\ jobsRun = {}
    /\ dlFrom = {}
    /\ github_actions = NotRun

ClassifierIdle ==
    /\ clsInput = <<>>
    /\ clsTrail = <<>>

DashboardIdle ==
    /\ job_name = <<>>
    /\ job_status = <<>>
    /\ job_conclusion = <<>>

NoReply == [code |-> 0]
NoSlot  == [kind |-> "absent", doc |-> JNull]

WebIdle ==
    /\ response = NoReply
    /\ API_TOKEN = ""
    /\ slot = NoSlot
    /\ updates = <<>>

\* dashboard applies status_class to a status; the class is classified again
Classify ==
    /\ Len(clsTrail) < 2
    /\ clsTrail' = Append(clsTrail,
                          status_class(IF clsTrail = <<>> THEN clsInput
                                       ELSE clsTrail[Len(clsTrail)]))
    /\ UNCHANGED <<parseVars, clsInput, ghVars, dashVars, webVars>>

(***************************************************************************)
(* Inputs of the parser specification.                                     *)
(***************************************************************************)
SeqsUpTo(S, n) == UNION {[1..m -> S] : m \in 0..n}

Str_high     == <<"h","i","g","h">>
Str_Medium   == <<"M","e","d","i","u","m">>
Str_low      == <<"l","o","w">>
Str_critical == <<"c","r","i","t","i","c","a","l">>

BanditEntries ==
    { JObj(<<>>),
      JObj(<<[k |-> "issue_severity", v |-> JStr(Str_HIGH)]>>),
      JObj(<<[k |-> "issue_severity", v |-> JStr(Str_high)]>>),
      JObj(<<[k |-> "issue_severity", v |-> JStr(Str_Medium)]>>),
      JObj(<<[k |-> "issue_severity", v |-> JStr(Str_low)]>>),
      JObj(<<[k |-> "issue_severity", v |-> JStr(Str_LOW)],
             [k |-> "issue_cwe", v |-> JObj(<<[k |-> "link", v |-> JStr(<<"u">>)]>>)]>>),
      JObj(<<[k |-> "issue_severity", v |-> JStr(Str_critical)]>>),
      JObj(<<[k |-> "issue_severity", v |-> JNull]>>),
      JObj(<<[k |-> "issue_cwe", v |-> JStr(<<"x">>)]>>),
      JStr(<<"x">>) }

BanditDocs ==
    { JObj(<<[k |-> "results", v |-> JList(l)]>>) : l \in SeqsUpTo(BanditEntries, MaxResults) }
    \cup { JObj(<<>>), JList(<<>>), JNull, JStr(<<"x">>), JNum(1),
           JObj(<<[k |-> "results", v |-> JNull]>>),
           JObj(<<[k |-> "results", v |-> JNum(3)]>>),
           JObj(<<[k |-> "results", v |-> JObj(<<>>)]>>),
           JObj(<<[k |-> "results", v |-> JStr(<<>>)]>>),
           JObj(<<[k |-> "results", v |-> JStr(<<"x">>)]>>),
           JObj(<<[k |-> "results", v |-> JObj(<<[k |-> "a", v |-> JNum(1)]>>)]>>) }

BanditFiles ==
    {AbsentFile, UnreadableFile, UndecodableFile, XmlFile(NoRate)}
    \cup {JsonFile(d) : d \in BanditDocs}

LongText == [i \in 1..(AdvisoryLimit + 1) |-> "x"]

SafetyEntries ==
    { JObj(<<>>),
      JObj(<<[k |-> "package_name", v |-> JStr(<<"p">>)], [k |-> "advisory", v |-> JStr(<<"a">>)]>>),
      JObj(<<[k |-> "package_name", v |-> JStr(<<"q">>)], [k |-> "advisory", v |-> JStr(LongText)]>>),
      JObj(<<[k |-> "advisory", v |-> JNull]>>),
      JNum(1) }

SafetyDocs ==
    { JList(l) : l \in SeqsUpTo(SafetyEntries, MaxResults) }
    \cup { JObj(<<[k |-> "vulnerabilities", v |-> JList(l)]>>) :
             l \in SeqsUpTo(SafetyEntries, MaxResults) }
    \cup { JObj(<<[k |-> "report_meta", v |-> JObj(<<>>)],
                  [k |-> "vulnerabilities", v |-> JList(l)]>>) :
             l \in SeqsUpTo(SafetyEntries, MaxResults) }
    \cup { JObj(<<>>), JNull, JStr(<<"x">>), JNum(1),
           JObj(<<[k |-> "vulnerabilities", v |-> JNull]>>),
           JObj(<<[k |-> "vulnerabilities", v |-> JObj(<<>>)]>>),
           JObj(<<[k |-> "vulnerabilities", v |-> JStr(<<"x">>)]>>) }

SafetyFiles ==
    {AbsentFile, UnreadableFile, UndecodableFile, XmlFile(NoRate)}
    \cup {JsonFile(d) : d \in SafetyDocs}

\* line-rate values, in units of 1/100000
CoverageRates ==
    {0, 4, 5, 6, 15, 25, 12345, 50000, 79990, 79994, 79995, 79996, 79999,
     80000, 80001, 80004, 80005, 85000, 99995, 100000}

CoverageFiles ==
    {AbsentFile, UnreadableFile, UndecodableFile, JsonFile(JObj(<<>>)),
     XmlFile(NoRate), XmlFile([t |-> "text", n |-> 0])}
    \cup {XmlFile([t |-> "num", n |-> n]) : n \in CoverageRates}

TrivyVulns ==
    { JObj(<<>>),
      JObj(<<[k |-> "VulnerabilityID", v |-> JStr(<<"c">>)], [k |-> "Title", v |-> JStr(<<"t">>)]>>) }

TrivyTargets ==
    { JObj(<<[k |-> "Target", v |-> JStr(<<"a">>)], [k |-> "Vulnerabilities", v |-> JList(l)]>>) :
        l \in SeqsUpTo(TrivyVulns, MaxVulns) }
    \cup { JObj(<<[k |-> "Vulnerabilities", v |-> JList(<<JObj(<<>>)>>)]>>),
           JObj(<<[k |-> "Target", v |-> JStr(<<"b">>)]>>) }

TrivyBadTargets ==
    { JNum(1),
      JObj(<<[k |-> "Vulnerabilities", v |-> JNull]>>),
      JObj(<<[k |-> "Vulnerabilities", v |-> JObj(<<>>)]>>),
      JObj(<<[k |-> "Vulnerabilities", v |-> JList(<<JNum(1)>>)]>>),
      JObj(<<[k |-> "Vulnerabilities",
              v |-> JList(<<JObj(<<[k |-> "Title", v |-> JNull]>>)>>)]>>),
      JObj(<<[k |-> "Vulnerabilities",
              v |-> JList(<<JObj(<<[k |-> "Description", v |-> JStr(LongText)]>>)>>)]>>) }

TrivyDocs ==
    { JObj(<<[k |-> "Results", v |-> JList(l)]>>) : l \in SeqsUpTo(TrivyTargets, MaxTargets) }
    \cup { JObj(<<[k |-> "Results", v |-> JList(<<r>>)]>>) : r \in TrivyBadTargets }
    \cup { JObj(<<>>), JList(<<>>), JNull,
           JObj(<<[k |-> "Results", v |-> JNull]>>),
           JObj(<<[k |-> "Results", v |-> JObj(<<>>)]>>),
           JObj(<<[k |-> "Results", v |-> JStr(<<"x">>)]>>) }

TrivyFiles ==
    {AbsentFile, UnreadableFile, UndecodableFile, XmlFile(NoRate)}
    \cup {JsonFile(d) : d \in TrivyDocs}

InputFiles(path) ==
    IF path = "bandit-report.json" THEN BanditFiles
    ELSE IF path = "safety.json" THEN SafetyFiles
    ELSE IF path = "coverage.xml" THEN CoverageFiles
    ELSE TrivyFiles

(***************************************************************************)
(* The parser specification: one report file is drawn from its inputs, the *)
(* others are absent, and the four parsers run in the order in which       *)
(* api_status and dashboard call them.                                     *)
(***************************************************************************)
ParseInit ==
    /\ files \in UNION { { [q \in ReportPaths |-> IF q = p THEN f ELSE AbsentFile] :
                             f \in InputFiles(p) } : p \in ReportPaths }
    /\ bandit = NotRun
    /\ safety = NotRun
    /\ coverage = NotRun
    /\ trivy = NotRun
    /\ env = NoCredentials
    /\ latest = 0
    /\ FetcherIdle
    /\ ClassifierIdle
    /\ DashboardIdle
    /\ WebIdle

LoadBandit ==
    /\ bandit = NotRun
    /\ bandit' = load_bandit_results(files["bandit-report.json"])
    /\ UNCHANGED <<files, safety, coverage, trivy, clsVars, dashVars, webVars, ghVars>>

LoadSafety ==
    /\ bandit # NotRun
    /\ safety = NotRun
    /\ safety' = load_safety_results(files["safety.json"])
    /\ UNCHANGED <<files, bandit, coverage, trivy, clsVars, dashVars, webVars, ghVars>>

LoadCoverage ==
    /\ safety # NotRun
    /\ coverage = NotRun
    /\ \E tie \in {0, 1} : coverage' = load_coverage(files["coverage.xml"], tie)
    /\ UNCHANGED <<files, bandit, safety, trivy, clsVars, dashVars, webVars, ghVars>>

LoadTrivy ==
    /\ coverage # NotRun
    /\ trivy = NotRun
    /\ trivy' = load_trivy_results(files["trivy.json"])
    /\ UNCHANGED <<files, bandit, safety, coverage, clsVars, dashVars, webVars, ghVars>>

ParseNext == LoadBandit \/ LoadSafety \/ LoadCoverage \/ LoadTrivy

SpecParse == ParseInit /\ [][ParseNext]_vars

(***************************************************************************)
(* The classifier specification: a status string is drawn and classified.  *)
(***************************************************************************)
StatusPrefixes ==
    { <<>>, <<"o","k">>, <<"O","K">>, <<"W","a","r","n">>, <<"f","a","i","l">>,
      <<"i","n","_">>, <<"x">> }

StatusStems ==
    { <<>>, Str_success, <<"S","U","C","C","E","S","S">>, <<"i","n","g">>, Str_failure,
      Str_error, <<"E","r","r","o","r">>, Str_progress, <<"P","R","O","G","R","E","S","S">>,
      Str_queued, Str_skipped, Str_cancelled, <<"C","A","N","C","E","L","L","E","D">>,
      <<"b","a","n","a","n","a">>, Str_NA, Str_na, Str_inprogress, <<"e","d">> }

StatusInputs == { p \o t : p \in StatusPrefixes, t \in StatusStems }

ClassifyInit ==
    /\ files = [p \in ReportPaths |-> AbsentFile]
    /\ bandit = NotRun
    /\ safety = NotRun
    /\ coverage = NotRun
    /\ trivy = NotRun
    /\ env = NoCredentials
    /\ latest = 0
    /\ FetcherIdle
    /\ DashboardIdle
    /\ WebIdle
    /\ clsInput \in StatusInputs
    /\ clsTrail = <<>>

ClassifyNext == Classify

SpecClassify == ClassifyInit /\ [][ClassifyNext]_vars

(***************************************************************************)
(* dashboard: the job-name matcher.                                        *)
(***************************************************************************)
\* s.replace("--", "-"): one pass from the left over non-overlapping pairs
RECURSIVE ReplaceDashes(_)
ReplaceDashes(s) ==
    IF s = <<>> THEN <<>>
    ELSE IF Len(s) >= 2 /\ s[1] = "-" /\ s[2] = "-"
         THEN <<"-">> \o ReplaceDashes(SubSeq(s, 3, Len(s)))
         ELSE <<s[1]>> \o ReplaceDashes(Tail(s))

\* name.lower().replace(" ", "-").replace("&", "").replace("(", "")
\*     .replace(")", "").replace("--", "-").strip()
normalize_job_name(name) ==
    Strip(ReplaceDashes(ReplaceChar(ReplaceChar(ReplaceChar(ReplaceChar(Lower(name),
              " ", <<"-">>), "&", <<>>), "(", <<>>), ")", <<>>)))

\* the test with one direction only, "normalized_search in normalized_key"
\* (mutant for C15)
JobMatches_SearchInKey(name, key) ==
    Contains(normalize_job_name(key), normalize_job_name(name))

\* normalized_search in normalized_key or normalized_key in normalized_search
JobMatches(name, key) ==
    LET normalized_search == normalize_job_name(name)
        normalized_key    == normalize_job_name(key)
    IN  \/ Contains(normalized_key, normalized_search)
        \/ Contains(normalized_search, normalized_key)

\* the if/elif chain of get_job_status on a matched job: the value it returns,
\* <<>> when no branch returns and the loop goes on to the next key.  The
\* fetcher stores "conclusion" and "status" in every job, so neither get
\* takes its default.
JobStatusOf(job) ==
    IF job.conclusion = JStr(Str_success) THEN Str_success
    ELSE IF job.conclusion = JStr(Str_failure) THEN Str_failure
    ELSE IF job.conclusion = JStr(Str_skipped) THEN Str_skipped
    ELSE IF job.conclusion = JStr(Str_cancelled) THEN Str_cancelled
    ELSE IF job.status = JStr(Str_in_progress) THEN Str_inprogress
    ELSE <<>>

\* the loop of get_job_status from the i-th item of jobs.items() on
RECURSIVE JobStatusFrom(_, _, _)
JobStatusFrom(jobs, i, name) ==
    IF i > Len(jobs) THEN Str_na
    ELSE IF JobMatches(name, jobs[i].k) /\ JobStatusOf(jobs[i].v) # <<>>
         THEN JobStatusOf(jobs[i].v)
         ELSE JobStatusFrom(jobs, i + 1, name)

get_job_status(ga, name) == JobStatusFrom(ga.jobs, 1, name)

\* the text that upper-cases every non-empty conclusion, "none" included
\* (mutant for C18)
JobConclusionOf_NoneIsConclusion(job) ==
    IF ~Falsy(job.conclusion) THEN Upper(job.conclusion.s) ELSE Upper(job.status.s)

\* get_job_conclusion on a matched job: it returns in every case
JobConclusionOf(job) ==
    IF ~Falsy(job.conclusion) /\ job.conclusion # JStr(Str_none)
    THEN Upper(job.conclusion.s)
    ELSE Upper(job.status.s)

\* a resolver that upper-cases the conclusion without testing it, so that a
\* null conclusion raises (mutant for C22)
JobConclusionRaises_Untested(job) == job.conclusion.t # "str"

\* conclusion.upper() or status.upper() on a value that is not a string
JobConclusionRaises(job) ==
    IF ~Falsy(job.conclusion) /\ job.conclusion # JStr(Str_none)
    THEN job.conclusion.t # "str"
    ELSE job.status.t # "str"

\* the loop of get_job_conclusion from the i-th item of jobs.items() on
RECURSIVE JobConclusionFrom(_, _, _)
JobConclusionFrom(jobs, i, name) ==
    IF i > Len(jobs) THEN Str_NA
    ELSE IF JobMatches(name, jobs[i].k)
         THEN JobConclusionOf(jobs[i].v)
         ELSE JobConclusionFrom(jobs, i + 1, name)

get_job_conclusion(ga, name) == JobConclusionFrom(ga.jobs, 1, name)

\* the template calls job_status(job_names[i]) and job_conclusion(job_names[i])
GetJobStatus ==
    /\ job_name # <<>>
    /\ job_status = <<>>
    /\ job_status' = get_job_status(github_actions, job_name)
    /\ UNCHANGED <<parseVars, clsVars, ghVars, job_name, job_conclusion, webVars>>

GetJobConclusion ==
    /\ job_name # <<>>
    /\ job_conclusion = <<>>
    /\ job_conclusion' = get_job_conclusion(github_actions, job_name)
    /\ UNCHANGED <<parseVars, clsVars, ghVars, job_name, job_status, webVars>>

\* the pipeline stages of the template
Stage_security == <<"s","e","c","u","r","i","t","y","-","s","c","a","n","n","i","n","g">>
Stage_tests    == <<"u","n","i","t","-","t","e","s","t","s">>
Stage_build    == <<"b","u","i","l","d","-","s","c","a","n","-","d","o","c","k","e","r","-","i","m","a","g","e">>
Stage_deploy   == <<"d","e","p","l","o","y","-","s","i","m","u","l","a","t","i","o","n">>

\* job_names of the template
StageNames == {Stage_security, Stage_tests, Stage_build, Stage_deploy}

(***************************************************************************)
(* The status request: api_status and dashboard answer once the four       *)
(* parsers and the fetcher have returned.                                  *)
(***************************************************************************)
\* the loop of get_job_conclusion raises on its first matched job
RECURSIVE JobConclusionRaisesFrom(_, _, _)
JobConclusionRaisesFrom(jobs, i, name) ==
    IF i > Len(jobs) THEN FALSE
    ELSE IF JobMatches(name, jobs[i].k) THEN JobConclusionRaises(jobs[i].v)
    ELSE JobConclusionRaisesFrom(jobs, i + 1, name)

\* jsonify({...}), 200
ApiStatus ==
    /\ gh.pc = "done" /\ github_actions # NotRun
    /\ response = NoReply
    /\ response' = [code   |-> 200,
                    route  |-> "/api/status",
                    bandit |-> bandit, safety |-> safety, coverage |-> coverage,
                    trivy  |-> trivy, github_actions |-> github_actions]
    /\ UNCHANGED <<parseVars, clsVars, ghVars, dashVars, API_TOKEN, slot, updates>>

\* render_template_string(HTML_TEMPLATE, ...): an exception of a resolver
\* called by the template is answered with status 500
Dashboard ==
    /\ gh.pc = "done" /\ github_actions # NotRun
    /\ response = NoReply
    /\ response' =
          IF \E s \in StageNames : JobConclusionRaisesFrom(github_actions.jobs, 1, s)
          THEN [code |-> 500, route |-> "/"]
          ELSE [code   |-> 200,
                route  |-> "/",
                bandit |-> bandit, safety |-> safety, coverage |-> coverage,
                trivy  |-> trivy, github_actions |-> github_actions,
                bandit_status   |-> status_class(bandit.status),
                safety_status   |-> status_class(safety.status),
                coverage_status |-> status_class(coverage.status),
                trivy_status    |-> status_class(trivy.status),
                pipeline_status |-> status_class(github_actions.status),
                stages |-> [s \in StageNames |->
                              [status     |-> get_job_status(github_actions, s),
                               conclusion |-> get_job_conclusion(github_actions, s)]]]
    /\ UNCHANGED <<parseVars, clsVars, ghVars, dashVars, API_TOKEN, slot, updates>>

(***************************************************************************)
(* Specification of the job-name matcher: a jobs mapping as the fetcher    *)
(* stores it and a pipeline stage of the template are drawn, then the page *)
(* resolves the stage's status class and conclusion text.                  *)
(***************************************************************************)
MaxJobs == 2

Key_unit_tests == <<"u","n","i","t","-","t","e","s","t","s">>
Key_tests      == <<"t","e","s","t","s">>
Key_build      == <<"b","u","i","l","d","-","-","s","c","a","n","-","d","o","c","k","e","r","-","i","m","a","g","e","-","u","b","u","n","t","u">>

\* keys as the fetcher stores them, e.g. of "Build & Scan Docker Image (ubuntu)"
JobKeys == {Key_unit_tests, Key_tests, Key_build}

\* a job of the mapping: the five fields the fetcher stores
StoredJob(status, conclusion) ==
    [status       |-> JStr(status),
     conclusion   |-> conclusion,
     started_at   |-> JNull,
     completed_at |-> JNull,
     html_url     |-> JNull]

StoredJobs ==
    {StoredJob(Str_completed, JStr(Str_success)),
     StoredJob(Str_completed, JStr(Str_failure)),
     StoredJob(Str_in_progress, JNull),
     StoredJob(Str_queued, JNull),
     StoredJob(Str_in_progress, JStr(Str_none))}

\* the mappings of at most MaxJobs jobs, keys distinct, in insertion order
JobMappings ==
    {m \in SeqsUpTo([k : JobKeys, v : StoredJobs], MaxJobs) :
        \A i, j \in DOMAIN m : i # j => m[i].k # m[j].k}

MatchInit ==
    /\ files = [p \in ReportPaths |-> AbsentFile]
    /\ bandit = load_bandit_results(AbsentFile)
    /\ safety = load_safety_results(AbsentFile)
    /\ coverage = load_coverage(AbsentFile, 0)
    /\ trivy = load_trivy_results(AbsentFile)
    /\ ClassifierIdle
    /\ env = [GITHUB_TOKEN |-> "ghp_token", GITHUB_REPOSITORY |-> "owner/repo"]
    /\ latest = 1
    /\ gh = [GhIdle EXCEPT !.pc = "done"]
    /\ calls = NoCalls
    /\ runsResp = NoResponse
    /\ jobsResp = NoResponse
    /\ jobsRun = {}
    /\ dlFrom = {}
    /\ \E m \in JobMappings :
          github_actions = [status |-> Upper(Str_success), jobs |-> m]
    /\ job_name \in StageNames
    /\ job_status = <<>>
    /\ job_conclusion = <<>>
    /\ WebIdle

MatchNext ==
    \/ GetJobStatus
    \/ GetJobConclusion

SpecMatch == MatchInit /\ [][MatchNext]_vars

(***************************************************************************)
(* The status request (api_status, dashboard): the four parsers, then the  *)
(* fetcher, while the CI provider may start new runs.                      *)
(***************************************************************************)
StartFiles ==
    { [p \in ReportPaths |-> AbsentFile],
      [p \in ReportPaths |-> UndecodableFile],
      [p \in ReportPaths |-> Stale(p)] }

Init ==
    /\ files \in StartFiles
    /\ bandit = NotRun
    /\ safety = NotRun
    /\ coverage = NotRun
    /\ trivy = NotRun
    /\ env \in [GITHUB_TOKEN : {"", "ghp_token"}, GITHUB_REPOSITORY : {"", "owner/repo"}]
    /\ latest \in {0, 1}
    /\ FetcherIdle
    /\ ClassifierIdle
    /\ DashboardIdle
    /\ WebIdle

Next ==
    \/ LoadBandit
    \/ LoadSafety
    \/ LoadCoverage
    \/ LoadTrivy
    \/ GH_NotConfigured
    \/ GH_RunList
    \/ DL_RunList
    \/ DL_Artifacts
    \/ DL_Download
    \/ GH_Jobs
    \/ ProviderNewRun
    \/ ApiStatus
    \/ Dashboard

Spec == Init /\ [][Next]_vars

(***************************************************************************)
(* update_results: the write-back endpoint and its status slot.            *)
(***************************************************************************)
MaxUpdates == 2

\* request.headers.get("Authorization"): None when the header is not sent
NoHeader       == [present |-> FALSE, value |-> ""]
Header(value)  == [present |-> TRUE, value |-> value]

Headers == {NoHeader, Header("Bearer "), Header("Bearer s3cret"), Header("Bearer wrong")}

\* the body of the request: a JSON document, or bytes that are not JSON
JsonBody(doc) == [kind |-> "json", doc |-> doc]
InvalidBody   == [kind |-> "invalid", doc |-> JNull]

UpdateDocs ==
    { JObj(<<>>), JObj(<<[k |-> "bandit", v |-> JStr(Str_OK)]>>),
      JList(<<>>), JList(<<JNum(1)>>),
      JNum(0), JBool(FALSE), JStr(<<>>), JNull }

Bodies == {JsonBody(d) : d \in UpdateDocs} \cup {InvalidBody}

\* data = request.get_json() or {}
PostedData(body) == IF Falsy(body.doc) THEN JObj(<<>>) ELSE body.doc

\* the test that only rejects a request without the header (mutant for C21)
Unauthorized_MissingOnly(header, token) == ~header.present

\* token != f"Bearer {AUTH_TOKEN}"
Unauthorized(header, token) ==
    ~(header.present /\ header.value = "Bearer " \o token)

\* the response and the slot after POST /api/update
update_results(header, body, token, old) ==
    IF Unauthorized(header, token)
    THEN [code |-> 403, text |-> "Unauthorized", slot |-> old]
    ELSE IF body.kind = "invalid"
    THEN [code |-> 400, text |-> "Bad Request", slot |-> old]
    ELSE [code |-> 200, text |-> "Results updated successfully",
          slot |-> [kind |-> "json", doc |-> PostedData(body)]]

UpdateResults ==
    /\ Len(updates) < MaxUpdates
    /\ \E header \in Headers, body \in Bodies :
          LET out == update_results(header, body, API_TOKEN, slot)
          IN  /\ slot' = out.slot
              /\ updates' = Append(updates, [header |-> header, body |-> body,
                                             code |-> out.code, text |-> out.text])
    /\ UNCHANGED <<parseVars, clsVars, ghVars, dashVars, response, API_TOKEN>>

UpdateInit ==
    /\ files = [p \in ReportPaths |-> AbsentFile]
    /\ bandit = NotRun
    /\ safety = NotRun
    /\ coverage = NotRun
    /\ trivy = NotRun
    /\ env = NoCredentials
    /\ latest = 0
    /\ FetcherIdle
    /\ ClassifierIdle
    /\ DashboardIdle
    /\ response = NoReply
    /\ API_TOKEN \in {"", "s3cret"}
    /\ slot = NoSlot
    /\ updates = <<>>

UpdateNext == UpdateResults

SpecUpdate == UpdateInit /\ [][UpdateNext]_vars

(***************************************************************************)
(* echo: the echo endpoint.                                                *)
(***************************************************************************)
\* the longest message the input set holds
MaxMessage == 1002

EchoLimit == 1000

\* a POST to /api/echo: whether its content type is JSON, and its decoded body
EchoRequest(is_json, data) == [is_json |-> is_json, data |-> data]

Message(n) == JStr([i \in 1..n |-> "x"])

EchoRequests ==
    {EchoRequest(TRUE, JObj(<<[k |-> "message", v |-> Message(n)]>>)) : n \in 0..MaxMessage}
    \cup {EchoRequest(TRUE, JObj(<<>>)),
          EchoRequest(TRUE, JObj(<<[k |-> "message", v |-> JNum(7)]>>)),
          EchoRequest(TRUE, JObj(<<[k |-> "message", v |-> JList(<<JNum(1), JNum(2)>>)]>>)),
          EchoRequest(TRUE, JList(<<>>)),
          EchoRequest(FALSE, JNull)}

\* the length test that also rejects a message of exactly the limit
\* (mutant for C23)
EchoTooLong_AtLimit(message) == PyLen(message) >= EchoLimit

\* len(message) > 1000
EchoTooLong(message) == PyLen(message) > EchoLimit

\* data.get raises on a body that is not an object, len on a message
\* without a length
EchoRaises(data) ==
    \/ data.t # "obj"
    \/ ~HasLen(DictGet(data.o, "message", JStr(Str_empty)))

\* the response of echo() to a request
echo(req) ==
    IF ~req.is_json
    THEN [code |-> 415, body |-> [error |-> "Content-Type must be application/json"]]
    ELSE IF EchoRaises(req.data)
    THEN [code |-> 500, body |-> [error |-> "Internal Server Error"]]
    ELSE LET message == DictGet(req.data.o, "message", JStr(Str_empty))
         IN  IF EchoTooLong(message)
             THEN [code |-> 400,
                   body |-> [error |-> "Message exceeds maximum length of 1000 characters"]]
             ELSE [code |-> 200, body |-> [echo |-> message, length |-> PyLen(message)]]

Echo ==
    /\ response = NoReply
    /\ \E req \in EchoRequests :
          response' = [code    |-> echo(req).code,
                       route   |-> "/api/echo",
                       request |-> req,
                       body    |-> echo(req).body]
    /\ UNCHANGED <<parseVars, clsVars, ghVars, dashVars, API_TOKEN, slot, updates>>

EchoInit ==
    /\ files = [p \in ReportPaths |-> AbsentFile]
    /\ bandit = NotRun
    /\ safety = NotRun
    /\ coverage = NotRun
    /\ trivy = NotRun
    /\ env = NoCredentials
    /\ latest = 0
    /\ FetcherIdle
    /\ ClassifierIdle
    /\ DashboardIdle
    /\ WebIdle

EchoNext == Echo

SpecEcho == EchoInit /\ [][EchoNext]_vars

(***************************************************************************)
(* Properties of the report parsers, checked under SpecParse.  The files   *)
(* do not change under SpecParse, so each result is the parser's result on *)
(* the file of the current state.                                          *)
(***************************************************************************)
BanditFile   == files["bandit-report.json"]
SafetyFile   == files["safety.json"]
CoverageFile == files["coverage.xml"]
TrivyFile    == files["trivy.json"]

\* C1: a parser given a path where no file exists returns status "N/A",
\* count 0 (coverage 0.0), no findings and no error message.
C1_MissingIsNA ==
    /\ (bandit # NotRun /\ BanditFile.kind = "absent") =>
          /\ bandit.status = Str_NA /\ bandit.issues = 0
          /\ bandit.findings = <<>> /\ "error" \notin DOMAIN bandit
    /\ (safety # NotRun /\ SafetyFile.kind = "absent") =>
          /\ safety.status = Str_NA /\ safety.vulns = 0
          /\ safety.vulnerabilities = <<>> /\ "error" \notin DOMAIN safety
    /\ (coverage # NotRun /\ CoverageFile.kind = "absent") =>
          /\ coverage.status = Str_NA /\ coverage.coverage = 0
          /\ "error" \notin DOMAIN coverage
    /\ (trivy # NotRun /\ TrivyFile.kind = "absent") =>
          /\ trivy.status = Str_NA /\ trivy.vulns = 0
          /\ trivy.vulnerabilities = <<>> /\ "error" \notin DOMAIN trivy

\* C1 witness: all four parsers have run and none of the four files exists.
C1_Witness ==
    /\ trivy # NotRun
    /\ \A p \in ReportPaths : files[p].kind = "absent"

(***************************************************************************)
(* The documented report formats (spec sections 4.1 and 6): what a         *)
(* document of the right shape is, for C2.                                 *)
(***************************************************************************)
IsText(j) == j.t = "str"

BanditShape(doc) ==
    /\ doc.t = "obj"
    /\ LET results == DictGet(doc.o, "results", JList(<<>>))
       IN  /\ results.t = "list"
           /\ \A i \in DOMAIN results.l :
                 /\ results.l[i].t = "obj"
                 /\ IsText(DictGet(results.l[i].o, "issue_severity", JStr(Str_LOW)))
                 /\ DictGet(results.l[i].o, "issue_cwe", JObj(<<>>)).t = "obj"

SafetyEntryShape(vuln) ==
    /\ vuln.t = "obj"
    /\ IsText(DictGet(vuln.o, "advisory", JStr(Str_empty)))

SafetyShape(doc) ==
    \/ doc.t = "list" /\ \A i \in DOMAIN doc.l : SafetyEntryShape(doc.l[i])
    \/ /\ doc.t = "obj"
       /\ LET v == DictGet(doc.o, "vulnerabilities", JList(<<>>))
          IN  v.t = "list" /\ \A i \in DOMAIN v.l : SafetyEntryShape(v.l[i])

TrivyVulnShape(vuln) ==
    /\ vuln.t = "obj"
    /\ IsText(DictGet(vuln.o, "Title", JStr(Str_empty)))
    /\ IsText(DictGet(vuln.o, "Description", JStr(Str_empty)))

TrivyShape(doc) ==
    /\ doc.t = "obj"
    /\ LET results == DictGet(doc.o, "Results", JList(<<>>))
       IN  /\ results.t = "list"
           /\ \A i \in DOMAIN results.l :
                 /\ results.l[i].t = "obj"
                 /\ LET v == DictGet(results.l[i].o, "Vulnerabilities", JList(<<>>))
                    IN  v.t = "list" /\ \A j \in DOMAIN v.l : TrivyVulnShape(v.l[j])

\* the file exists but cannot be read, cannot be decoded, or decodes to a
\* document of the wrong shape
Unparsable(file, Shape(_)) ==
    \/ file.kind \in {"unreadable", "undecodable", "xml"}
    \/ file.kind = "json" /\ ~Shape(file.doc)

CoverageUnparsable(file) ==
    \/ file.kind \in {"unreadable", "undecodable", "json"}
    \/ file.kind = "xml" /\ file.rate.t = "text"

\* C2: a parser given a file that exists but cannot be read or parsed (I/O
\* error, decode failure, or a document of the wrong shape) returns status
\* "ERROR", count 0, no findings and an error message.
C2_UnparsableIsError ==
    /\ (bandit # NotRun /\ Unparsable(BanditFile, BanditShape)) =>
          /\ bandit.status = Str_ERROR /\ bandit.issues = 0
          /\ bandit.findings = <<>> /\ "error" \in DOMAIN bandit
    /\ (safety # NotRun /\ Unparsable(SafetyFile, SafetyShape)) =>
          /\ safety.status = Str_ERROR /\ safety.vulns = 0
          /\ safety.vulnerabilities = <<>> /\ "error" \in DOMAIN safety
    /\ (coverage # NotRun /\ CoverageUnparsable(CoverageFile)) =>
          /\ coverage.status = Str_ERROR /\ coverage.coverage = 0
          /\ "error" \in DOMAIN coverage
    /\ (trivy # NotRun /\ Unparsable(TrivyFile, TrivyShape)) =>
          /\ trivy.status = Str_ERROR /\ trivy.vulns = 0
          /\ trivy.vulnerabilities = <<>> /\ "error" \in DOMAIN trivy

(***************************************************************************)
(* SAST parser.                                                            *)
(***************************************************************************)
BanditParsed == bandit # NotRun /\ bandit.status \notin {Str_NA, Str_ERROR}

\* the entries of the results list of the report
BanditInput == PyIter(DictGet(BanditFile.doc.o, "results", JList(<<>>)))

\* the upper-cased severity of an entry, LOW when it has none
SeverityOf(entry) ==
    IF HasKey(entry.o, "issue_severity")
    THEN Upper(DictGet(entry.o, "issue_severity", JNull).s)
    ELSE Str_LOW

\* C3: for a parsed SAST report the status is "OK" iff the results list is
\* empty, else "FAIL" iff some entry has upper-cased severity HIGH or MEDIUM,
\* else "WARN".
C3_SastStatusPolicy ==
    BanditParsed =>
        LET serious == \E i \in DOMAIN BanditInput :
                           SeverityOf(BanditInput[i]) \in {Str_HIGH, Str_MEDIUM}
        IN  /\ bandit.status \in {Str_OK, Str_FAIL, Str_WARN}
            /\ bandit.status = Str_OK <=> Len(BanditInput) = 0
            /\ bandit.status = Str_FAIL <=> (Len(BanditInput) > 0 /\ serious)
            /\ bandit.status = Str_WARN <=> (Len(BanditInput) > 0 /\ ~serious)

\* C3 witness: a report whose entries all have a severity outside
\* HIGH/MEDIUM/LOW was parsed to WARN.
C3_Witness ==
    /\ BanditParsed
    /\ Len(BanditInput) > 0
    /\ \A i \in DOMAIN BanditInput :
           SeverityOf(BanditInput[i]) \notin {Str_HIGH, Str_MEDIUM, Str_LOW}
    /\ bandit.status = Str_WARN

RECURSIVE SumCounts(_, _)
SumCounts(d, n) == IF n = 0 THEN 0 ELSE SumCounts(d, n - 1) + d[n].v

\* C4: for a parsed SAST report the severity breakdown has the keys HIGH,
\* MEDIUM and LOW, counts each entry under its upper-cased severity (LOW when
\* absent), and its counts sum to the issue count, the number of findings.
C4_SastBreakdown ==
    BanditParsed =>
        /\ \A K \in {Str_HIGH, Str_MEDIUM, Str_LOW} : HasKey(bandit.severity, K)
        /\ \A i, j \in DOMAIN bandit.severity :
               bandit.severity[i].k = bandit.severity[j].k => i = j
        /\ \A i \in DOMAIN bandit.severity :
               bandit.severity[i].v =
                   Cardinality({e \in DOMAIN BanditInput :
                                    SeverityOf(BanditInput[e]) = bandit.severity[i].k})
        /\ \A e \in DOMAIN BanditInput : HasKey(bandit.severity, SeverityOf(BanditInput[e]))
        /\ SumCounts(bandit.severity, Len(bandit.severity)) = bandit.issues
        /\ bandit.issues = Len(bandit.findings)
        /\ bandit.issues = Len(BanditInput)

\* C4 witness: one finding of severity "high" and one without a severity were
\* parsed to the breakdown HIGH 1, MEDIUM 0, LOW 1.
C4_Witness ==
    /\ BanditParsed
    /\ Len(BanditInput) = 2
    /\ \E i, j \in DOMAIN BanditInput :
           /\ DictGet(BanditInput[i].o, "issue_severity", JNull) = JStr(Str_high)
           /\ ~HasKey(BanditInput[j].o, "issue_severity")
    /\ bandit.severity = <<[k |-> Str_HIGH, v |-> 1], [k |-> Str_MEDIUM, v |-> 0],
                           [k |-> Str_LOW, v |-> 1]>>

(***************************************************************************)
(* Dependency-scan parser.                                                 *)
(***************************************************************************)
\* the current format holding the entries of a bare array
SafetyWrapped(array) == JsonFile(JObj(<<[k |-> "vulnerabilities", v |-> array]>>))

\* C5: a bare array of N vulnerability objects and an object whose
\* "vulnerabilities" member is the same array give the same result: vulns = N,
\* one finding per object in input order, status "OK" iff N = 0, else "FAIL".
C5_SafetyFormatsAgree ==
    /\ (safety # NotRun /\ SafetyFile.kind = "json" /\ SafetyFile.doc.t = "list") =>
          LET l == SafetyFile.doc.l
          IN  /\ safety = load_safety_results(SafetyWrapped(SafetyFile.doc))
              /\ (\A i \in DOMAIN l : SafetyEntryShape(l[i])) =>
                    /\ safety.vulns = Len(l)
                    /\ Len(safety.vulnerabilities) = Len(l)
                    /\ \A i \in DOMAIN l :
                           safety.vulnerabilities[i].package =
                               DictGet(l[i].o, "package_name", JStr(Str_unknown))
                    /\ safety.status = IF Len(l) = 0 THEN Str_OK ELSE Str_FAIL
    /\ (/\ safety # NotRun /\ SafetyFile.kind = "json" /\ SafetyFile.doc.t = "obj"
        /\ DictGet(SafetyFile.doc.o, "vulnerabilities", JNull).t = "list") =>
          safety = load_safety_results(
                       JsonFile(DictGet(SafetyFile.doc.o, "vulnerabilities", JNull)))

\* C5 witness: a bare array of two vulnerability objects was parsed to FAIL
\* with two findings.
C5_Witness ==
    /\ safety # NotRun /\ SafetyFile.kind = "json" /\ SafetyFile.doc.t = "list"
    /\ Len(SafetyFile.doc.l) = 2
    /\ \A i \in DOMAIN SafetyFile.doc.l : SafetyEntryShape(SafetyFile.doc.l[i])
    /\ safety.vulnerabilities[1].package # safety.vulnerabilities[2].package
    /\ safety.status = Str_FAIL /\ safety.vulns = 2

(***************************************************************************)
(* Coverage parser.                                                        *)
(***************************************************************************)
\* C6: for a parsable line-rate the reported coverage is line-rate * 100
\* rounded to 2 decimal places, the status is "OK" exactly when the reported
\* coverage is >= 80.0 (8000 hundredths of a percent) and "WARN" otherwise, and
\* it is never "FAIL".
C6_CoverageStatusFromReported ==
    (coverage # NotRun /\ coverage.status \notin {Str_NA, Str_ERROR}) =>
        LET thousandths == IF CoverageFile.rate.t = "absent" THEN 0 ELSE CoverageFile.rate.n
        IN  /\ 10 * coverage.coverage - 5 <= thousandths
            /\ thousandths <= 10 * coverage.coverage + 5
            /\ coverage.status \in {Str_OK, Str_WARN}
            /\ coverage.status = Str_OK <=> coverage.coverage >= 8000

(***************************************************************************)
(* Container-scan parser.                                                  *)
(***************************************************************************)
TrivyParsed == trivy # NotRun /\ trivy.status \notin {Str_NA, Str_ERROR}

\* the targets of the report and the vulnerability entries of one target
TrivyInput == PyIter(DictGet(TrivyFile.doc.o, "Results", JList(<<>>)))

VulnsOf(r) == PyIter(DictGet(r.o, "Vulnerabilities", JList(<<>>)))

\* the number of vulnerability entries of the targets before target t
RECURSIVE VulnsBefore(_, _)
VulnsBefore(results, t) ==
    IF t = 1 THEN 0
    ELSE VulnsBefore(results, t - 1) + Len(VulnsOf(results[t - 1]))

\* C7: for a parsed container-scan report, vulns is the number of
\* vulnerability entries over all targets, the findings are one per entry in
\* target-then-entry order, each with its own target's label, and the status is
\* "OK" iff that number is 0, else "FAIL".
C7_TrivyFlattens ==
    TrivyParsed =>
        LET total == VulnsBefore(TrivyInput, Len(TrivyInput) + 1)
        IN  /\ trivy.vulns = total
            /\ Len(trivy.vulnerabilities) = total
            /\ \A t \in DOMAIN TrivyInput : \A v \in DOMAIN VulnsOf(TrivyInput[t]) :
                   LET f == trivy.vulnerabilities[VulnsBefore(TrivyInput, t) + v]
                   IN  /\ f.target = DictGet(TrivyInput[t].o, "Target", JStr(Str_unknown))
                       /\ f.vuln_id = DictGet(VulnsOf(TrivyInput[t])[v].o,
                                              "VulnerabilityID", JStr(Str_empty))
            /\ trivy.status = IF total = 0 THEN Str_OK ELSE Str_FAIL

\* C7 witness: a report of two targets with different labels, two entries in
\* the first and one in the second, was parsed to three findings.
C7_Witness ==
    /\ TrivyParsed
    /\ Len(TrivyInput) = 2
    /\ Len(VulnsOf(TrivyInput[1])) = 2 /\ Len(VulnsOf(TrivyInput[2])) = 1
    /\ trivy.vulns = 3
    /\ trivy.vulnerabilities[2].target # trivy.vulnerabilities[3].target
    /\ trivy.vulnerabilities[1].vuln_id # trivy.vulnerabilities[2].vuln_id

(***************************************************************************)
(* Status classifier, checked under SpecClassify.                          *)
(***************************************************************************)
StatusClasses ==
    {Str_ok, Str_warn, Str_fail, Str_error, Str_inprogress, Str_skipped, Str_na}

\* the rule of the stated priority order that applies first to s, 7 when
\* none of the six does
FirstRule(s) ==
    IF StartsWith(s, Str_ok) \/ s = Str_success THEN 1
    ELSE IF StartsWith(s, Str_warn) THEN 2
    ELSE IF StartsWith(s, Str_fail) THEN 3
    ELSE IF s = Str_error THEN 4
    ELSE IF Contains(s, Str_progress) \/ s = Str_queued THEN 5
    ELSE IF s = Str_skipped \/ s = Str_cancelled THEN 6
    ELSE 7

RuleClass == <<Str_ok, Str_warn, Str_fail, Str_error, Str_inprogress, Str_skipped, Str_na>>

\* C8: the classifier returns, for every status string compared
\* case-insensitively, the class of the first rule that applies in the stated
\* priority order, one of the seven classes; classifying a returned class again
\* returns the same class.
C8_ClassifierPriority ==
    /\ Len(clsTrail) >= 1 =>
          /\ clsTrail[1] \in StatusClasses
          /\ clsTrail[1] = RuleClass[FirstRule(Lower(clsInput))]
    /\ Len(clsTrail) = 2 => clsTrail[2] = clsTrail[1]

\* C8 witness: a status that starts with "fail" and contains "progress" was
\* classified as fail, and fail was classified again.
C8_Witness ==
    /\ Len(clsTrail) = 2
    /\ StartsWith(Lower(clsInput), Str_fail)
    /\ Contains(Lower(clsInput), Str_progress)
    /\ clsTrail[1] = Str_fail

(***************************************************************************)
(* CI status fetcher, checked under Spec.                                  *)
(***************************************************************************)
\* C9: when the access token or the owner/repo identifier is empty, the
\* fetcher returns status "N/A", an empty jobs mapping and a message, and no
\* request of any kind is sent to the CI provider.
C9_NotConfiguredNoCalls ==
    (env.GITHUB_TOKEN = "" \/ env.GITHUB_REPOSITORY = "") =>
        /\ calls = NoCalls
        /\ runsResp = NoResponse /\ jobsResp = NoResponse
        /\ github_actions # NotRun =>
              /\ github_actions.status = Str_NA
              /\ github_actions.jobs = <<>>
              /\ "message" \in DOMAIN github_actions
              /\ github_actions.message # ""
              /\ "error" \notin DOMAIN github_actions

\* C9 witness: the fetcher returned with a token but no repository configured.
C9_Witness ==
    /\ env.GITHUB_TOKEN # "" /\ env.GITHUB_REPOSITORY = ""
    /\ github_actions # NotRun
    /\ gh.pc = "done"

\* C10: a non-success HTTP status from the run-list request, or from the
\* job-list request after a successful run-list request, yields status "ERROR"
\* with the status code in the error message and an empty jobs mapping.
C10_HttpErrorIsError ==
    /\ (runsResp.kind = "http" /\ runsResp.code # 200) =>
          /\ github_actions # NotRun
          /\ github_actions.status = Str_ERROR
          /\ github_actions.error = "API returned " \o ToString(runsResp.code)
          /\ github_actions.jobs = <<>>
          /\ calls.jobs = 0
    /\ (jobsResp.kind = "http" /\ jobsResp.code # 200) =>
          /\ runsResp.kind = "http" /\ runsResp.code = 200
          /\ github_actions # NotRun
          /\ github_actions.status = Str_ERROR
          /\ github_actions.error = "Jobs API returned " \o ToString(jobsResp.code)
          /\ github_actions.jobs = <<>>

\* C10 witness: the run list was fetched with status 200 and the run was
\* found, the job-list request returned 500, and the fetcher returned ERROR.
C10_Witness ==
    /\ HasRun(runsResp)
    /\ jobsResp.kind = "http" /\ jobsResp.code = 500
    /\ github_actions # NotRun
    /\ github_actions.status = Str_ERROR

\* C11: when the run-list request succeeds and its list of workflow runs is
\* empty, the fetcher returns status "N/A" (not "ERROR") with the message
\* "No workflow runs found" and an empty jobs mapping, and asks for no jobs.
C11_NoRunsIsNA ==
    ( /\ runsResp.kind = "http" /\ runsResp.code = 200 /\ runsResp.decodes
      /\ runsResp.body.t = "obj"
      /\ DictGet(runsResp.body.o, "workflow_runs", JList(<<>>)) = JList(<<>>) ) =>
        /\ github_actions # NotRun
        /\ github_actions.status = Str_NA
        /\ github_actions.jobs = <<>>
        /\ "message" \in DOMAIN github_actions
        /\ github_actions.message = "No workflow runs found"
        /\ "error" \notin DOMAIN github_actions
        /\ calls.jobs = 0 /\ calls.artifacts = 0

\* C11 witness: with credentials configured the run list came back with
\* status 200 and no runs, and the fetcher returned.
C11_Witness ==
    /\ ~(env.GITHUB_TOKEN = "" \/ env.GITHUB_REPOSITORY = "")
    /\ runsResp.kind = "http" /\ runsResp.code = 200 /\ runsResp.decodes
    /\ DictGet(runsResp.body.o, "workflow_runs", JNull) = JList(<<>>)
    /\ gh.pc = "done"
    /\ github_actions # NotRun

\* both requests of the fetcher succeeded: a run was found and the job list
\* came back with status 200 and a well-formed list of named jobs
BothCallsSucceeded ==
    /\ HasRun(runsResp)
    /\ jobsResp.kind = "http" /\ jobsResp.code = 200 /\ jobsResp.decodes
    /\ jobsResp.body.t = "obj"
    /\ LET field == DictGet(jobsResp.body.o, "jobs", JList(<<>>))
       IN  /\ field.t = "list"
           /\ \A i \in DOMAIN field.l :
                 /\ field.l[i].t = "obj"
                 /\ DictGet(field.l[i].o, "name", JNull).t = "str"

\* C12: whenever both requests succeed, the overall status is the run's
\* conclusion in upper case when the run has one, and otherwise (conclusion
\* absent or null, as for a queued or in-progress run) the run's in-flight
\* status in upper case; it is never "ERROR".
C12_OverallStatus ==
    BothCallsSucceeded =>
        LET run        == gh.latest_run
            conclusion == DictGet(run.o, "conclusion", JNull)
            status     == DictGet(run.o, "status", JStr(Str_unknown))
        IN  /\ github_actions # NotRun
            /\ github_actions.status # Str_ERROR
            /\ github_actions.status =
                  IF conclusion.t = "str" THEN Upper(conclusion.s) ELSE Upper(status.s)

\* a request of the fetcher that failed in transport: requests.get raised, or
\* the body of a 200 response could not be decoded
TransportFailure(resp) ==
    \/ resp.kind = "exception"
    \/ resp.kind = "http" /\ resp.code = 200 /\ ~resp.decodes

\* C13: a transport failure (a timeout, or a response body that is not JSON)
\* of the run-list or of the job-list request, and any exception raised on a
\* malformed job list, ends in status "ERROR" with the failure text in the
\* error message and an empty jobs mapping; the fetcher always returns a
\* value to its caller.
C13_FailureContained ==
    /\ gh.pc = "done" => github_actions # NotRun
    /\ TransportFailure(runsResp) =>
          /\ github_actions # NotRun
          /\ github_actions.status = Str_ERROR
          /\ github_actions.error =
                "Request failed: " \o
                    (IF runsResp.kind = "exception" THEN TimedOut ELSE NotJson)
          /\ github_actions.jobs = <<>>
          /\ calls.jobs = 0
    /\ TransportFailure(jobsResp) =>
          /\ github_actions # NotRun
          /\ github_actions.status = Str_ERROR
          /\ github_actions.error =
                "Request failed: " \o
                    (IF jobsResp.kind = "exception" THEN TimedOut ELSE NotJson)
          /\ github_actions.jobs = <<>>
    /\ ( /\ jobsResp.kind = "http" /\ jobsResp.code = 200 /\ jobsResp.decodes
         /\ \E i \in DOMAIN DictGet(jobsResp.body.o, "jobs", JList(<<>>)).l :
               ~HasKey(DictGet(jobsResp.body.o, "jobs", JList(<<>>)).l[i].o, "name") ) =>
          /\ github_actions # NotRun
          /\ github_actions.status = Str_ERROR
          /\ github_actions.error = "'name'"
          /\ github_actions.jobs = <<>>

\* C13 witness: a run was found, the job-list request timed out, and the
\* fetcher returned ERROR.
C13_Witness ==
    /\ HasRun(runsResp)
    /\ jobsResp.kind = "exception"
    /\ gh.pc = "done"
    /\ github_actions # NotRun
    /\ github_actions.status = Str_ERROR

\* C14: every key stored in the jobs mapping of a fetched pipeline run is the
\* job's display name as the job-name matcher normalizes it (lower case,
\* spaces to hyphens, "&", "(" and ")" removed, double hyphens collapsed,
\* trimmed), and no stored key contains two consecutive hyphens.
C14_StoredKeyNormalized ==
    (BothCallsSucceeded /\ github_actions # NotRun
        /\ github_actions.status # Str_ERROR) =>
        LET items == DictGet(jobsResp.body.o, "jobs", JList(<<>>)).l
            jobs  == github_actions.jobs
        IN  /\ \A i \in DOMAIN items :
                  HasKey(jobs, normalize_job_name(DictGet(items[i].o, "name", JNull).s))
            /\ \A i \in DOMAIN jobs : ~Contains(jobs[i].k, <<"-", "-">>)

(***************************************************************************)
(* Job-name matcher, checked under SpecMatch.                              *)
(***************************************************************************)
\* the positions of the jobs whose key matches the stage: one normalized
\* name is a substring of the other
MatchingJobs ==
    {i \in DOMAIN github_actions.jobs :
        LET a == normalize_job_name(job_name)
            b == normalize_job_name(github_actions.jobs[i].k)
        IN  Contains(a, b) \/ Contains(b, a)}

\* C15: a stage matches a job key iff the normalized stage is a substring of
\* the normalized key or the other way round: when no key of the mapping
\* matches, the stage resolves to status "na" and conclusion "N/A", and the
\* conclusion is "N/A" only then.
C15_MatchBothWays ==
    /\ (job_status # <<>> /\ MatchingJobs = {}) => job_status = Str_na
    /\ job_conclusion # <<>> => (job_conclusion = Str_NA <=> MatchingJobs = {})

\* C15 witness: the stage "unit-tests" was resolved against the single key
\* "tests", which it contains, or "build-scan-docker-image" against
\* "build--scan-docker-image-ubuntu", which contains it once normalized.
C15_Witness ==
    /\ job_conclusion # <<>> /\ job_status # <<>>
    /\ Len(github_actions.jobs) = 1
    /\ \/ job_name = Stage_tests /\ github_actions.jobs[1].k = Key_tests
       \/ job_name = Stage_build /\ github_actions.jobs[1].k = Key_build
    /\ job_conclusion # Str_NA

\* the mapping cut down to its first job whose key matches the stage
FirstMatchOnly ==
    LET first == CHOOSE i \in MatchingJobs : \A j \in MatchingJobs : i <= j
    IN  [github_actions EXCEPT !.jobs = <<github_actions.jobs[first]>>]

\* C16: first match wins: the resolved status and the resolved conclusion
\* text both come from the first job, in the mapping's iteration order, whose
\* key matches the stage; a later matching job influences neither value.
C16_FirstMatchWins ==
    MatchingJobs # {} =>
        /\ job_status # <<>> => job_status = get_job_status(FirstMatchOnly, job_name)
        /\ job_conclusion # <<>> =>
              job_conclusion = get_job_conclusion(FirstMatchOnly, job_name)

\* C17: the resolved status of a stage is the matched job's conclusion when
\* that is success, failure, skipped or cancelled; "in-progress" when the
\* conclusion is null or "none" and the job's status is "in_progress"; and
\* "na" in every other case, no match included.  It is always one of these
\* six values.
C17_ResolvedStatus ==
    job_status # <<>> =>
        /\ job_status \in {Str_success, Str_failure, Str_skipped, Str_cancelled,
                           Str_inprogress, Str_na}
        /\ IF MatchingJobs = {} THEN job_status = Str_na
           ELSE LET first == CHOOSE i \in MatchingJobs : \A j \in MatchingJobs : i <= j
                    job   == github_actions.jobs[first].v
                IN  job_status =
                       IF job.conclusion \in {JStr(Str_success), JStr(Str_failure),
                                              JStr(Str_skipped), JStr(Str_cancelled)}
                       THEN job.conclusion.s
                       ELSE IF /\ job.conclusion \in {JNull, JStr(Str_none)}
                               /\ job.status = JStr(Str_in_progress)
                       THEN Str_inprogress
                       ELSE Str_na

\* C18: the resolved conclusion text of a stage is the first matched job's
\* conclusion in upper case when it has one that is not "none", otherwise
\* that job's status in upper case; it is "N/A" exactly when no key matches.
C18_ConclusionText ==
    job_conclusion # <<>> =>
        IF MatchingJobs = {} THEN job_conclusion = Str_NA
        ELSE LET first == CHOOSE i \in MatchingJobs : \A j \in MatchingJobs : i <= j
                 job   == github_actions.jobs[first].v
             IN  /\ job_conclusion # Str_NA
                 /\ job_conclusion =
                       IF job.conclusion.t = "str" /\ job.conclusion.s # Str_none
                       THEN Upper(job.conclusion.s)
                       ELSE Upper(job.status.s)

\* C18 witness: the first matching job has the conclusion "none" and is in
\* progress, a second job matches too, and the text is the first one's status.
C18_Witness ==
    /\ job_conclusion # <<>>
    /\ Cardinality(MatchingJobs) = 2
    /\ github_actions.jobs[1].v.conclusion = JStr(Str_none)
    /\ job_conclusion = Upper(Str_in_progress)

(***************************************************************************)
(* The status request end to end, checked under Spec.                      *)
(***************************************************************************)
\* C19: a status request (JSON endpoint or rendered page) served with no
\* report file on disk and without CI credentials is answered with HTTP 200,
\* and the four tool results and the pipeline status are all "N/A".
C19_AllNotAvailable ==
    ( /\ response # NoReply
      /\ \A p \in ReportPaths : files[p].kind = "absent"
      /\ (env.GITHUB_TOKEN = "" \/ env.GITHUB_REPOSITORY = "") ) =>
        /\ response.code = 200
        /\ response.bandit.status = Str_NA
        /\ response.safety.status = Str_NA
        /\ response.coverage.status = Str_NA
        /\ response.trivy.status = Str_NA
        /\ response.github_actions.status = Str_NA
        /\ response.route = "/" =>
              /\ response.pipeline_status = Str_na
              /\ \A s \in StageNames :
                    /\ response.stages[s].status = Str_na
                    /\ response.stages[s].conclusion = Str_NA

\* C19 witness: the page was rendered with no report file and no credentials.
C19_Witness ==
    /\ response # NoReply /\ response.route = "/"
    /\ \A p \in ReportPaths : files[p].kind = "absent"
    /\ env = NoCredentials
    /\ response.code = 200

(***************************************************************************)
(* Write-back endpoint, checked under SpecUpdate.                          *)
(***************************************************************************)
\* the update requests that carried the shared secret and a JSON document
Accepted ==
    {i \in DOMAIN updates :
        /\ updates[i].header.present
        /\ updates[i].header.value = "Bearer " \o API_TOKEN
        /\ updates[i].body.kind = "json"}

\* C20: after any sequence of update requests the slot holds exactly the JSON
\* document posted by the most recent request with the correct shared-secret
\* header, verbatim for every JSON document (empty and falsy ones such as [],
\* 0, false and "" included), and each such request returned success.
C20_SlotHoldsLastPosted ==
    /\ \A i \in Accepted : updates[i].code = 200
    /\ Accepted # {} =>
          LET last == CHOOSE i \in Accepted : \A j \in Accepted : j <= i
          IN  slot = [kind |-> "json", doc |-> updates[last].body.doc]

\* C21: an update request whose Authorization header is missing or differs
\* from "Bearer " followed by the configured shared secret is answered with
\* 403, and the slot (reports/latest_status.json and its directory) is left
\* exactly as it was before the request.
C21_RejectedLeavesSlot ==
    [][ Len(updates') = Len(updates) + 1 =>
          LET req == updates'[Len(updates')]
          IN  (~req.header.present \/ req.header.value # "Bearer " \o API_TOKEN) =>
                  /\ req.code = 403
                  /\ req.text = "Unauthorized"
                  /\ slot' = slot ]_vars

\* C21 witness: after an accepted update, a request with a wrong secret was
\* rejected and the slot still holds the accepted document.
C21_Witness ==
    /\ Len(updates) = 2
    /\ updates[1].code = 200
    /\ updates[2].header = Header("Bearer wrong")
    /\ updates[2].code = 403
    /\ slot = [kind |-> "json", doc |-> updates[1].body.doc]
    /\ updates[2].body.kind = "json" /\ updates[2].body.doc # updates[1].body.doc

\* the statuses a tool result can carry
ToolStatuses == {Str_OK, Str_WARN, Str_FAIL, Str_ERROR, Str_NA}

C23_Echo ==
    response # NoReply =>
        LET req == response.request
        IN  /\ ~req.is_json => response.code = 415
            /\ ( /\ req.is_json /\ req.data.t = "obj"
                 /\ DictGet(req.data.o, "message", JNull).t = "str" ) =>
                  LET message == DictGet(req.data.o, "message", JNull).s
                  IN  IF Len(message) <= 1000
                      THEN /\ response.code = 200
                           /\ response.body.echo = JStr(message)
                           /\ response.body.length = Len(message)
                      ELSE /\ response.code = 400
                           /\ "error" \in DOMAIN response.body
                           /\ "echo" \notin DOMAIN response.body

\* C23 witness: a message of exactly 1000 characters was echoed.
C23_Witness ==
    /\ response # NoReply
    /\ response.request.is_json
    /\ response.code = 200
    /\ response.body.length = 1000

\* the fetcher's run-list request came back with status 200 and a run
RunListFound ==
    /\ runsResp.kind = "http" /\ runsResp.code = 200 /\ runsResp.decodes
    /\ runsResp.body.t = "obj"
    /\ DictGet(runsResp.body.o, "workflow_runs", JList(<<>>)).t = "list"
    /\ DictGet(runsResp.body.o, "workflow_runs", JList(<<>>)).l # <<>>

\* C24: in a status request the job-list request is sent at most once, only
\* after the fetcher's run-list request returned 200 with a non-empty list of
\* runs, and for the id of the first run of that response; after a failed or
\* empty run-list response the fetcher sends no further request.
C24_CallOrdering ==
    /\ calls.jobs <= 1
    /\ calls.jobs = 1 =>
          /\ RunListFound
          /\ jobsRun = {DictGet(DictGet(runsResp.body.o, "workflow_runs", JNull).l[1].o,
                                "id", JNull)}
    /\ calls.jobs = 0 => jobsRun = {} /\ jobsResp = NoResponse
    /\ (runsResp # NoResponse /\ ~RunListFound) =>
          /\ calls = [NoCalls EXCEPT !.runs = 1]
          /\ gh.pc = "done"

\* C24 witness: the provider started run 2 while run 1's artifacts were
\* looked up, and the job list was requested once, for run 1.
C24_Witness ==
    /\ calls.jobs = 1
    /\ latest = 2
    /\ jobsRun = {JNum(1)}
    /\ calls.runs > 1

\* C25: the four parsers and the fetcher are independent: for the same
\* initial report files and the same provider responses, the snapshot is the
\* same whichever order the five run in.  The fetcher reads no parser result,
\* so run first it leaves the same files on disk, and the parsers run after it
\* return their results on those files: the snapshot of the request must be
\* that one too.
C25_OrderIndependent ==
    response # NoReply =>
        /\ response.bandit = load_bandit_results(files["bandit-report.json"])
        /\ response.safety = load_safety_results(files["safety.json"])
        /\ \E tie \in {0, 1} :
              response.coverage = load_coverage(files["coverage.xml"], tie)
        /\ response.trivy = load_trivy_results(files["trivy.json"])

\* C26: while the provider may start new runs between the requests, every
\* artifact extracted during a status request and the job list fetched in it
\* belong to the run whose id the returned pipeline run reports.
C26_RunConsistency ==
    (gh.pc = "done" /\ github_actions # NotRun /\ "run_id" \in DOMAIN github_actions
        /\ github_actions.run_id.t = "num") =>
        /\ jobsRun \subseteq {github_actions.run_id}
        /\ \A r \in dlFrom : r = github_actions.run_id.n

====
